---- MODULE Spec2Model ----
(***************************************************************************)
(* Multi-layer search of fireplexity (lib/multi-layer-search.ts) together  *)
(* with the integratedSearch merge it drives (lib/scraper/scrape.ts).      *)
(*                                                                         *)
(* Strings are sequences of one-character strings, so that includes(),     *)
(* split(), replace() and toLowerCase() are computed and not assumed.  A   *)
(* character outside ASCII is written "uXXXX" (its UTF-16 code unit).      *)
(***************************************************************************)
EXTENDS Integers, Sequences, FiniteSets, TLC

----------------------------------------------------------------------------
(* String primitives of the JavaScript runtime *)

\* the value of an absent optional field (undefined); no string equals it
UNDEF == <<"#undefined">>

\* `${x}` of an undefined value
UndefinedText == <<"u", "n", "d", "e", "f", "i", "n", "e", "d">>

UpperCase == <<"A", "B", "C", "D", "E", "F", "G", "H", "I", "J", "K", "L", "M", "N", "O", "P", "Q", "R", "S", "T", "U", "V", "W", "X", "Y", "Z">>
LowerCase == <<"a", "b", "c", "d", "e", "f", "g", "h", "i", "j", "k", "l", "m", "n", "o", "p", "q", "r", "s", "t", "u", "v", "w", "x", "y", "z">>

\* String.prototype.toLowerCase, one character
LowerChar(c) ==
  IF \E i \in 1..Len(UpperCase) : UpperCase[i] = c
  THEN LowerCase[CHOOSE i \in 1..Len(UpperCase) : UpperCase[i] = c]
  ELSE c

\* String.prototype.toLowerCase
ToLower(s) == [i \in 1..Len(s) |-> LowerChar(s[i])]

\* pattern p occurs in s at position i
MatchAt(s, p, i) ==
  /\ i >= 1
  /\ i + Len(p) - 1 <= Len(s)
  /\ \A k \in 1..Len(p) : s[i + k - 1] = p[k]

\* String.prototype.includes
Includes(s, p) == \E i \in 1..(Len(s) + 1) : MatchAt(s, p, i)

\* RegExp /p1|p2|.../.test(s)
TestAny(s, pats) == \E p \in pats : Includes(s, p)

\* RegExp /p1|p2|.../i.test(s), the alternatives written in lower case
TestAnyCI(s, pats) == TestAny(ToLower(s), pats)

\* String.prototype.startsWith / endsWith
StartsWith(s, p) == MatchAt(s, p, 1)
EndsWith(s, p) == MatchAt(s, p, Len(s) - Len(p) + 1)

\* s without its first n characters / without its last n characters
DropFirst(s, n) == SubSeq(s, n + 1, Len(s))
DropLast(s, n) == SubSeq(s, 1, Len(s) - n)

\* the class \s of a regular expression (space, tab, line feed, U+3000)
WhiteSpace == {" ", "\t", "\n", "u3000"}

\* String.prototype.trim
RECURSIVE TrimLeft(_)
TrimLeft(s) ==
  IF s # <<>> /\ Head(s) \in WhiteSpace THEN TrimLeft(Tail(s)) ELSE s

RECURSIVE TrimRight(_)
TrimRight(s) ==
  IF s # <<>> /\ s[Len(s)] \in WhiteSpace THEN TrimRight(DropLast(s, 1)) ELSE s

Trim(s) == TrimRight(TrimLeft(s))

\* first index >= i of s whose character is outside D, Len(s) + 1 if none
RECURSIVE SkipRun(_, _, _)
SkipRun(s, D, i) ==
  IF i <= Len(s) /\ s[i] \in D THEN SkipRun(s, D, i + 1) ELSE i

\* String.prototype.split(/[D]+/): cut at every maximal run of characters of D;
\* a leading or trailing run leaves an empty string at that end
RECURSIVE SplitRunsFrom(_, _, _, _)
SplitRunsFrom(s, D, i, cur) ==
  IF i > Len(s) THEN <<cur>>
  ELSE IF s[i] \in D
       THEN <<cur>> \o SplitRunsFrom(s, D, SkipRun(s, D, i), <<>>)
       ELSE SplitRunsFrom(s, D, i + 1, Append(cur, s[i]))

SplitRuns(s, D) == SplitRunsFrom(s, D, 1, <<>>)

\* the alternatives of pats (in order) that match s at i
MatchesAt(s, pats, i) == {k \in 1..Len(pats) : MatchAt(s, pats[k], i)}

\* String.prototype.split(/p1|p2|.../i): cut at every match, the first
\* alternative that matches at a position wins
RECURSIVE SplitPatsFrom(_, _, _, _)
SplitPatsFrom(s, pats, i, cur) ==
  IF i > Len(s) THEN <<cur>>
  ELSE IF MatchesAt(ToLower(s), pats, i) # {}
       THEN LET k == CHOOSE k \in MatchesAt(ToLower(s), pats, i) :
                       \A j \in MatchesAt(ToLower(s), pats, i) : k <= j
            IN  <<cur>> \o SplitPatsFrom(s, pats, i + Len(pats[k]), <<>>)
       ELSE SplitPatsFrom(s, pats, i + 1, Append(cur, s[i]))

SplitPats(s, pats) == SplitPatsFrom(s, pats, 1, <<>>)

\* Array.prototype.join
RECURSIVE Join(_, _)
Join(seq, sep) ==
  IF seq = <<>> THEN <<>>
  ELSE IF Len(seq) = 1 THEN seq[1]
  ELSE seq[1] \o sep \o Join(Tail(seq), sep)


----------------------------------------------------------------------------
(* Query Analyzer: analyzeQuerySimple, detectQueryAspects *)

\* intent markers, tested on the lower-cased query
\* (hikaku, chigai, vs)
ComparisonMarkers == {<<"u6BD4", "u8F03">>, <<"u9055", "u3044">>, <<"v", "s">>}
\* (houhou, yarikata, how)
HowtoMarkers == {<<"u65B9", "u6CD5">>, <<"u3084", "u308A", "u65B9">>, <<"h", "o", "w">>}
\* (saishin, nyuusu, 2024, 2025)
CurrentEventsMarkers == {<<"u6700", "u65B0">>, <<"u30CB", "u30E5", "u30FC", "u30B9">>, <<"2", "0", "2", "4">>, <<"2", "0", "2", "5">>}
\* (rebyuu, osusume, hyouka)
OpinionMarkers == {<<"u30EC", "u30D3", "u30E5", "u30FC">>, <<"u304A", "u3059", "u3059", "u3081">>, <<"u8A55", "u4FA1">>}
\* (jissou, koodo, arugorizumu)
TechnicalMarkers == {<<"u5B9F", "u88C5">>, <<"u30B3", "u30FC", "u30C9">>, <<"u30A2", "u30EB", "u30B4", "u30EA", "u30BA", "u30E0">>}

\* /to|ya|oyobi|matawa|,/g : the connectives counted by hasMultipleConcepts
ConceptConnectives == <<<<"u3068">>, <<"u3084">>, <<"u304A", "u3088", "u3073">>, <<"u307E", "u305F", "u306F">>, <<"u3001">>>>

\* /naze|donoyouni|naniga|dou/ : hasQuestionMarker
QuestionMarkers == {<<"u306A", "u305C">>, <<"u3069", "u306E", "u3088", "u3046", "u306B">>, <<"u4F55", "u304C">>, <<"u3069", "u3046">>}

\* /[\s,.!?]+/ with the full-width punctuation of the source
KeywordDelimiters == WhiteSpace \cup {"u3001", "u3002", "uFF01", "uFF1F"}

\* the words dropped from the keywords (nitsuite, towa, desuka, kudasai, arimasuka)
StopWords == {<<"u306B", "u3064", "u3044", "u3066">>, <<"u3068", "u306F">>, <<"u3067", "u3059", "u304B">>, <<"u304F", "u3060", "u3055", "u3044">>, <<"u3042", "u308A", "u307E", "u3059", "u304B">>}

\* String.prototype.match(/.../g).length: the non-overlapping matches, left to right
RECURSIVE CountMatchesFrom(_, _, _)
CountMatchesFrom(s, pats, i) ==
  IF i > Len(s) THEN 0
  ELSE IF MatchesAt(s, pats, i) # {}
       THEN LET k == CHOOSE k \in MatchesAt(s, pats, i) :
                       \A j \in MatchesAt(s, pats, i) : k <= j
            IN  1 + CountMatchesFrom(s, pats, i + Len(pats[k]))
       ELSE CountMatchesFrom(s, pats, i + 1)

CountMatches(s, pats) == CountMatchesFrom(s, pats, 1)

WordCountComplex == 15
WordCountMedium == 8
MinConnectives == 2
MinKeywordLength == 2

DetectIntent(query) ==
  LET lowerQuery == ToLower(query)
  IN  IF TestAny(lowerQuery, ComparisonMarkers) THEN "comparison"
      ELSE IF TestAny(lowerQuery, HowtoMarkers) THEN "howto"
      ELSE IF TestAny(lowerQuery, CurrentEventsMarkers) THEN "current_events"
      ELSE IF TestAny(lowerQuery, OpinionMarkers) THEN "opinion"
      ELSE IF TestAny(lowerQuery, TechnicalMarkers) THEN "technical"
      ELSE "factual"

DetectComplexity(query) ==
  LET wordCount == Len(SplitRuns(query, WhiteSpace))
      hasMultipleConcepts == CountMatches(query, ConceptConnectives) >= MinConnectives
      hasQuestionMarker == TestAny(query, QuestionMarkers)
  IN  IF \/ wordCount > WordCountComplex
         \/ hasMultipleConcepts
         \/ (hasQuestionMarker /\ wordCount > WordCountMedium)
      THEN "complex"
      ELSE IF wordCount > WordCountMedium \/ hasMultipleConcepts THEN "medium"
      ELSE "simple"

SuggestDepth(complexity, intent) ==
  IF complexity = "complex" \/ intent = "comparison" \/ intent = "comprehensive" THEN 3
  ELSE IF complexity = "medium" \/ intent = "technical" \/ intent = "howto" THEN 2
  ELSE 1

IsKeyword(word) == Len(word) > MinKeywordLength /\ word \notin StopWords

ExtractKeywords(query) == SelectSeq(SplitRuns(query, KeywordDelimiters), IsKeyword)

\* a faulty variant of IntentAspects: the howto bundle repeats a cue-based aspect
IntentAspectsRepeating(intent) ==
  IF intent = "howto" THEN <<<<"s", "t", "e", "p", "s">>, <<"m", "e", "t", "h", "o", "d">>, <<"t", "i", "p", "s">>>> ELSE <<>>

\* the bundle of aspects an intent adds
IntentAspects(intent) ==
  CASE intent = "comparison" -> <<<<"s", "i", "m", "i", "l", "a", "r", "i", "t", "i", "e", "s">>, <<"d", "i", "f", "f", "e", "r", "e", "n", "c", "e", "s">>, <<"p", "r", "o", "s", "_", "c", "o", "n", "s">>>>
    [] intent = "howto" -> <<<<"s", "t", "e", "p", "s">>, <<"r", "e", "q", "u", "i", "r", "e", "m", "e", "n", "t", "s">>, <<"t", "i", "p", "s">>>>
    [] intent = "technical" -> <<<<"i", "m", "p", "l", "e", "m", "e", "n", "t", "a", "t", "i", "o", "n">>, <<"e", "x", "a", "m", "p", "l", "e", "s">>, <<"b", "e", "s", "t", "_", "p", "r", "a", "c", "t", "i", "c", "e", "s">>>>
    [] intent = "opinion" -> <<<<"r", "e", "v", "i", "e", "w", "s">>, <<"r", "e", "c", "o", "m", "m", "e", "n", "d", "a", "t", "i", "o", "n", "s">>, <<"r", "a", "t", "i", "n", "g", "s">>>>
    [] intent = "current_events" -> <<<<"l", "a", "t", "e", "s", "t", "_", "n", "e", "w", "s">>, <<"t", "i", "m", "e", "l", "i", "n", "e">>, <<"i", "m", "p", "a", "c", "t">>>>
    [] OTHER -> <<>>

detectQueryAspects(query, intent) ==
    \* /towa|nani|what/i
    (IF TestAnyCI(query, {<<"u3068", "u306F">>, <<"u4F55">>, <<"w", "h", "a", "t">>}) THEN <<<<"d", "e", "f", "i", "n", "i", "t", "i", "o", "n">>>> ELSE <<>>)
    \* /naze|riyuu|why/i
 \o (IF TestAnyCI(query, {<<"u306A", "u305C">>, <<"u7406", "u7531">>, <<"w", "h", "y">>}) THEN <<<<"r", "e", "a", "s", "o", "n">>>> ELSE <<>>)
    \* /donoyouni|houhou|how/i
 \o (IF TestAnyCI(query, {<<"u3069", "u306E", "u3088", "u3046", "u306B">>, <<"u65B9", "u6CD5">>, <<"h", "o", "w">>}) THEN <<<<"m", "e", "t", "h", "o", "d">>>> ELSE <<>>)
    \* /itsu|nichiji|when/i
 \o (IF TestAnyCI(query, {<<"u3044", "u3064">>, <<"u65E5", "u6642">>, <<"w", "h", "e", "n">>}) THEN <<<<"t", "i", "m", "i", "n", "g">>>> ELSE <<>>)
    \* /doko|basho|where/i
 \o (IF TestAnyCI(query, {<<"u3069", "u3053">>, <<"u5834", "u6240">>, <<"w", "h", "e", "r", "e">>}) THEN <<<<"l", "o", "c", "a", "t", "i", "o", "n">>>> ELSE <<>>)
    \* /dare|who/i
 \o (IF TestAnyCI(query, {<<"u8AB0">>, <<"w", "h", "o">>}) THEN <<<<"p", "e", "r", "s", "o", "n">>>> ELSE <<>>)
 \o IntentAspects(intent)

analyzeQuerySimple(query) ==
  LET intent == DetectIntent(query)
      complexity == DetectComplexity(query)
  IN  [intent |-> intent,
       complexity |-> complexity,
       suggestedDepth |-> SuggestDepth(complexity, intent),
       aspects |-> detectQueryAspects(query, intent),
       keywords |-> ExtractKeywords(query)]

----------------------------------------------------------------------------
(* Sub-Query Generator: generateSubQueries *)

MaxSubQueries == 3

\* `${keywords[i]}`: the text "undefined" when the list is too short
KeywordText(keywords, i) == IF i <= Len(keywords) THEN keywords[i] ELSE UndefinedText

\* Array.prototype.slice(0, n)
Take(seq, n) == SubSeq(seq, 1, IF Len(seq) < n THEN Len(seq) ELSE n)

\* /to|vs|versus/i : the separators of the two sides of a comparison
ComparisonSeparators == <<<<"u3068">>, <<"v", "s">>, <<"v", "e", "r", "s", "u", "s">>>>

\* the queries of the layer 1 -> 2 transition that depend on the intent
IntentSubQueries(originalQuery, analysis) ==
  LET kw0 == KeywordText(analysis.keywords, 1)
      parts == SplitPats(originalQuery, ComparisonSeparators)
  IN  CASE analysis.intent = "comparison" ->
             IF Len(parts) >= 2
             THEN <<Trim(parts[1]) \o <<" ", "u30E1", "u30EA", "u30C3", "u30C8", " ", "u30C7", "u30E1", "u30EA", "u30C3", "u30C8">>,
                    Trim(parts[2]) \o <<" ", "u30E1", "u30EA", "u30C3", "u30C8", " ", "u30C7", "u30E1", "u30EA", "u30C3", "u30C8">>>>
             ELSE <<>>
        [] analysis.intent = "howto" ->
             <<kw0 \o <<" ", "u624B", "u9806", " ", "u30B9", "u30C6", "u30C3", "u30D7">>, kw0 \o <<" ", "u521D", "u5FC3", "u8005", " ", "u5165", "u9580">>>>
        [] analysis.intent = "technical" ->
             <<kw0 \o <<" ", "u5B9F", "u88C5", " ", "u30B5", "u30F3", "u30D7", "u30EB", "u30B3", "u30FC", "u30C9">>, kw0 \o <<" ", "u30D9", "u30B9", "u30C8", "u30D7", "u30E9", "u30AF", "u30C6", "u30A3", "u30B9">>>>
        [] analysis.intent = "current_events" ->
             <<kw0 \o <<" ", "u6700", "u65B0", "u30CB", "u30E5", "u30FC", "u30B9", " ", "2", "0", "2", "5">>>>
        [] OTHER ->
             <<kw0 \o <<" ", "u89E3", "u8AAC", " ", "u308F", "u304B", "u308A", "u3084", "u3059", "u304F">>>>

\* lines 238-284: the queries pushed for the layer, before the cut
ProposedSubQueries(originalQuery, analysis, existingSources, layer) ==
  LET keywords == analysis.keywords
      kw0 == KeywordText(keywords, 1)
      second ==
        IF layer = 1
        THEN (IF Len(keywords) >= 2
              THEN <<kw0 \o <<" ">> \o KeywordText(keywords, 2) \o <<" ", "u8A73", "u7D30">>,
                     kw0 \o <<" ", "u5177", "u4F53", "u4F8B", " ", "u4E8B", "u4F8B">>>>
              ELSE <<>>)
             \o IntentSubQueries(originalQuery, analysis)
        ELSE <<>>
      third ==
        IF layer = 2
        THEN <<kw0 \o <<" ", "u5C02", "u9580", "u5BB6", " ", "u898B", "u89E3">>, kw0 \o <<" ", "u6700", "u65B0", "u7814", "u7A76", " ", "u8AD6", "u6587">>>>
             \o (IF ~ \E i \in 1..Len(existingSources) :
                        Includes(existingSources[i].url, <<"w", "i", "k", "i", "p", "e", "d", "i", "a">>)
                 THEN <<kw0 \o <<" ", "s", "i", "t", "e", ":", "w", "i", "k", "i", "p", "e", "d", "i", "a", ".", "o", "r", "g">>>>
                 ELSE <<>>)
        ELSE <<>>
  IN  second \o third

\* a faulty variant of generateSubQueries: the list is returned uncut
generateSubQueriesUncut(originalQuery, analysis, existingSources, layer) ==
  ProposedSubQueries(originalQuery, analysis, existingSources, layer)

generateSubQueries(originalQuery, analysis, existingSources, layer) ==
  Take(ProposedSubQueries(originalQuery, analysis, existingSources, layer), MaxSubQueries)

----------------------------------------------------------------------------
(* Coverage Evaluator: evaluateCoverageSimple *)

\* `${x}` and  x || ''  of an optional string
TemplateText(x) == IF x = UNDEF THEN UndefinedText ELSE x
OrEmpty(x) == IF x = UNDEF THEN <<>> ELSE x

\* the trigger words of an aspect; an aspect outside the table triggers on its own name
aspectKeywords(aspect) ==
  CASE aspect = <<"d", "e", "f", "i", "n", "i", "t", "i", "o", "n">> -> {<<"u3068", "u306F">>, <<"u5B9A", "u7FA9">>, <<"u610F", "u5473">>, <<"i", "s", " ", "a">>, <<"r", "e", "f", "e", "r", "s", " ", "t", "o">>}
    [] aspect = <<"r", "e", "a", "s", "o", "n">> -> {<<"u7406", "u7531">>, <<"u306A", "u305C">>, <<"b", "e", "c", "a", "u", "s", "e">>, <<"u539F", "u56E0">>}
    [] aspect = <<"m", "e", "t", "h", "o", "d">> -> {<<"u65B9", "u6CD5">>, <<"u3084", "u308A", "u65B9">>, <<"u624B", "u9806">>, <<"h", "o", "w", " ", "t", "o">>, <<"s", "t", "e", "p", "s">>}
    [] aspect = <<"t", "i", "m", "i", "n", "g">> -> {<<"u3044", "u3064">>, <<"u65E5", "u6642">>, <<"u671F", "u9593">>, <<"w", "h", "e", "n">>, <<"d", "a", "t", "e">>}
    [] aspect = <<"l", "o", "c", "a", "t", "i", "o", "n">> -> {<<"u5834", "u6240">>, <<"u3069", "u3053">>, <<"w", "h", "e", "r", "e">>, <<"l", "o", "c", "a", "t", "i", "o", "n">>}
    [] aspect = <<"s", "i", "m", "i", "l", "a", "r", "i", "t", "i", "e", "s">> -> {<<"u5171", "u901A", "u70B9">>, <<"u540C", "u3058">>, <<"s", "i", "m", "i", "l", "a", "r">>}
    [] aspect = <<"d", "i", "f", "f", "e", "r", "e", "n", "c", "e", "s">> -> {<<"u9055", "u3044">>, <<"u7570", "u306A", "u308B">>, <<"d", "i", "f", "f", "e", "r", "e", "n", "c", "e">>}
    [] aspect = <<"p", "r", "o", "s", "_", "c", "o", "n", "s">> -> {<<"u30E1", "u30EA", "u30C3", "u30C8">>, <<"u30C7", "u30E1", "u30EA", "u30C3", "u30C8">>, <<"u5229", "u70B9">>, <<"u6B20", "u70B9">>}
    [] aspect = <<"s", "t", "e", "p", "s">> -> {<<"u30B9", "u30C6", "u30C3", "u30D7">>, <<"u624B", "u9806">>, <<"u9806", "u756A">>}
    [] aspect = <<"i", "m", "p", "l", "e", "m", "e", "n", "t", "a", "t", "i", "o", "n">> -> {<<"u5B9F", "u88C5">>, <<"u30B3", "u30FC", "u30C9">>, <<"i", "m", "p", "l", "e", "m", "e", "n", "t", "a", "t", "i", "o", "n">>}
    [] aspect = <<"e", "x", "a", "m", "p", "l", "e", "s">> -> {<<"u4F8B">>, <<"u30B5", "u30F3", "u30D7", "u30EB">>, <<"e", "x", "a", "m", "p", "l", "e">>}
    [] aspect = <<"r", "e", "v", "i", "e", "w", "s">> -> {<<"u30EC", "u30D3", "u30E5", "u30FC">>, <<"u8A55", "u4FA1">>, <<"u53E3", "u30B3", "u30DF">>}
    [] aspect = <<"l", "a", "t", "e", "s", "t", "_", "n", "e", "w", "s">> -> {<<"u6700", "u65B0">>, <<"u30CB", "u30E5", "u30FC", "u30B9">>, <<"u767A", "u8868">>}
    [] OTHER -> {aspect}

\* the lower-cased text of all sources: title, description and content of each
SourceText(s) ==
  TemplateText(s.title) \o <<" ">> \o OrEmpty(s.description) \o <<" ">> \o OrEmpty(s.content)

AllContent(sources) ==
  ToLower(Join([i \in 1..Len(sources) |-> SourceText(sources[i])], <<" ">>))

\* coverage is a fraction num/den; the weights 0.6 and 0.4 are 6 and 4 tenths
AspectWeight == 6
KeywordWeight == 4
WeightScale == 10
\* aspectCoverage of a query without aspects: 0.5 = NeutralNum / NeutralDen
NeutralNum == 1
NeutralDen == 2

Max(a, b) == IF a >= b THEN a ELSE b
Min(a, b) == IF a <= b THEN a ELSE b

\* x >= y for fractions with positive denominators
FracGeq(x, y) == x.num * y.den >= y.num * x.den

\* a faulty variant of WeightedCoverage: the two coverages are added unweighted
UnweightedCoverage(aspNum, aspDen, matched, kwDen) ==
  [num |-> aspNum * kwDen + matched * aspDen, den |-> aspDen * kwDen]

\* line 344: aspectCoverage * 0.6 + keywordCoverage * 0.4, for aspectCoverage =
\* aspNum / aspDen and keywordCoverage = matched / kwDen
WeightedCoverage(aspNum, aspDen, matched, kwDen) ==
  [num |-> AspectWeight * aspNum * kwDen + KeywordWeight * matched * aspDen,
   den |-> WeightScale * aspDen * kwDen]

evaluateCoverageSimple(query, sources, analysis) ==
  LET allContent == AllContent(sources)
      isCovered(aspect) == TestAny(allContent, aspectKeywords(aspect))
      isGap(aspect) == ~ isCovered(aspect)
      gaps == SelectSeq(analysis.aspects, isGap)
      coveredAspects == Len(SelectSeq(analysis.aspects, isCovered))
      kwMatched(kw) == Includes(allContent, ToLower(kw))
      matched == Len(SelectSeq(analysis.keywords, kwMatched))
      kwDen == Max(Len(analysis.keywords), 1)
      aspNum == IF Len(analysis.aspects) > 0 THEN coveredAspects ELSE NeutralNum
      aspDen == IF Len(analysis.aspects) > 0 THEN Len(analysis.aspects) ELSE NeutralDen
  IN  [coverage |-> WeightedCoverage(aspNum, aspDen, matched, kwDen), gaps |-> gaps]

----------------------------------------------------------------------------
(* Deduplication: deduplicateSources *)

\* the key two sources are compared by
NormalizeUrl(url) ==
  LET noScheme == IF StartsWith(url, <<"h", "t", "t", "p", "s", ":", "/", "/">>) THEN DropFirst(url, 8)
                  ELSE IF StartsWith(url, <<"h", "t", "t", "p", ":", "/", "/">>) THEN DropFirst(url, 7)
                  ELSE url
      noSlash == IF EndsWith(noScheme, <<"/">>) THEN DropLast(noScheme, 1) ELSE noScheme
  IN  IF StartsWith(noSlash, <<"w", "w", "w", ".">>) THEN DropFirst(noSlash, 4) ELSE noSlash

RECURSIVE DedupFrom(_, _)
DedupFrom(sources, seen) ==
  IF sources = <<>> THEN <<>>
  ELSE LET normalizedUrl == NormalizeUrl(Head(sources).url)
       IN  IF normalizedUrl \in seen
           THEN DedupFrom(Tail(sources), seen)
           ELSE <<Head(sources)>> \o DedupFrom(Tail(sources), seen \cup {normalizedUrl})

deduplicateSources(sources) == DedupFrom(sources, {})

----------------------------------------------------------------------------
(* Integrated Search: integratedSearch of lib/scraper/scrape.ts *)

\* x || y of optional strings: undefined and the empty string are falsy
OrElse(x, y) == IF x = UNDEF \/ x = <<>> THEN y ELSE x

\* x is a non-empty string
Truthy(x) == x # UNDEF /\ x # <<>>

\* new URL(url) accepts the url: an http(s) scheme followed by a host
IsValidUrl(url) ==
  \/ StartsWith(url, <<"h", "t", "t", "p", ":", "/", "/">>) /\ Len(url) > 7
  \/ StartsWith(url, <<"h", "t", "t", "p", "s", ":", "/", "/">>) /\ Len(url) > 8

\* the characters of s before the first "/", all of s if there is none
RECURSIVE UpToSlash(_)
UpToSlash(s) ==
  IF s = <<>> \/ Head(s) = "/" THEN <<>> ELSE <<Head(s)>> \o UpToSlash(Tail(s))

\* new URL(url).hostname of a valid url
Hostname(url) ==
  ToLower(UpToSlash(IF StartsWith(url, <<"h", "t", "t", "p", "s", ":", "/", "/">>) THEN DropFirst(url, 8)
                    ELSE DropFirst(url, 7)))

\* String.prototype.replace(p, ''): the first occurrence of p removed
RECURSIVE RemoveFirst(_, _)
RemoveFirst(s, p) ==
  IF s = <<>> THEN <<>>
  ELSE IF MatchAt(s, p, 1) THEN DropFirst(s, Len(p))
  ELSE <<Head(s)>> \o RemoveFirst(Tail(s), p)

\* the site name of a result whose page gave none
SiteNameOf(url) ==
  IF IsValidUrl(url) THEN RemoveFirst(Hostname(url), <<"w", "w", "w", ".">>) ELSE <<"u", "n", "k", "n", "o", "w", "n">>

\* a fetched page counts as content above this many characters
MinScrapedLength == 50

\* Array.prototype.find(s => s.url === url): the first scrape result of the url, or NoScrape
NoScrape == [url |-> UNDEF, title |-> UNDEF, description |-> UNDEF, content |-> UNDEF,
             markdown |-> UNDEF, favicon |-> UNDEF, ogImage |-> UNDEF, siteName |-> UNDEF]

FindScraped(scrapedResults, url) ==
  IF \E i \in 1..Len(scrapedResults) : scrapedResults[i].url = url
  THEN scrapedResults[CHOOSE i \in 1..Len(scrapedResults) :
                        /\ scrapedResults[i].url = url
                        /\ \A j \in 1..(i - 1) : scrapedResults[j].url # url]
  ELSE NoScrape

HasScrapedContent(scraped) ==
  \/ scraped.markdown # UNDEF /\ Len(scraped.markdown) > MinScrapedLength
  \/ scraped.content # UNDEF /\ Len(scraped.content) > MinScrapedLength

\* the document synthesized from the provider's title and description
FallbackMarkdown(searchResult) ==
  <<"#", " ">> \o TemplateText(searchResult.title) \o <<"\n", "\n">> \o searchResult.description

\* one provider result merged with the scrape result of its url
MergeScraped(searchResult, scrapedResults) ==
  LET scraped == FindScraped(scrapedResults, searchResult.url)
      fallback == ~ HasScrapedContent(scraped) /\ Truthy(searchResult.description)
  IN  [url |-> searchResult.url,
       title |-> OrElse(scraped.title, searchResult.title),
       description |-> OrElse(scraped.description, searchResult.description),
       markdown |-> IF fallback THEN FallbackMarkdown(searchResult) ELSE scraped.markdown,
       content |-> IF fallback THEN searchResult.description ELSE scraped.content,
       favicon |-> scraped.favicon,
       image |-> scraped.ogImage,
       siteName |-> IF Truthy(scraped.siteName) THEN scraped.siteName
                    ELSE SiteNameOf(searchResult.url)]

\* a provider result returned without scraping
Unscraped(r) ==
  [url |-> r.url,
   title |-> r.title,
   description |-> r.description,
   markdown |-> IF Truthy(r.description) THEN FallbackMarkdown(r) ELSE UNDEF,
   content |-> r.description,
   favicon |-> UNDEF,
   image |-> UNDEF,
   siteName |-> SiteNameOf(r.url)]

----------------------------------------------------------------------------
(* Search Provider Client: search of lib/scraper/search.ts *)

\* the outcome of a function body: it returned a value, or it threw
Returned(value) == [threw |-> FALSE, value |-> value]
Thrown == [threw |-> TRUE, value |-> <<>>]

\* try { ... } catch { return caught }
TryCatch(outcome, caught) == IF outcome.threw THEN Returned(caught) ELSE outcome

\* the fixed sizes of the news and image requests
BraveNewsCount == 5
BraveImageCount == 6

\* the item objects built from a Brave response
WebItem(item) == [url |-> item.url, title |-> item.title, description |-> item.description]

NewsItem(item) ==
  [url |-> item.url, title |-> item.title, description |-> item.description,
   source |-> item.source, date |-> item.age, imageUrl |-> UNDEF]

ImageItem(item) ==
  [url |-> item.url, title |-> OrElse(item.title, <<"U", "n", "t", "i", "t", "l", "e", "d">>),
   imageUrl |-> OrElse(item.thumbnail, item.url), source |-> item.source,
   width |-> item.width, height |-> item.height]

\* the try block of a Brave request: an HTTP error status returns the empty list; a
\* network error and a body that is no JSON of the expected shape throw
BraveRequest(reply, items, count) ==
  CASE reply.kind = "ok" -> Returned(Take(items, count))
    [] reply.kind = "httpError" -> Returned(<<>>)
    [] OTHER -> Thrown

braveWebSearch(reply, numResults) ==
  TryCatch(BraveRequest(reply, [i \in 1..Len(reply.items) |-> WebItem(reply.items[i])],
                        numResults), <<>>)

\* a faulty variant of braveNewsSearch: the request is not inside a try block
braveNewsSearchUncaught(reply, numResults) ==
  BraveRequest(reply, [i \in 1..Len(reply.items) |-> NewsItem(reply.items[i])], numResults)

braveNewsSearch(reply, numResults) ==
  TryCatch(BraveRequest(reply, [i \in 1..Len(reply.items) |-> NewsItem(reply.items[i])],
                        numResults), <<>>)

braveImageSearch(reply, numResults) ==
  TryCatch(BraveRequest(reply, [i \in 1..Len(reply.items) |-> ImageItem(reply.items[i])],
                        numResults), <<>>)

\* the text of s behind the first occurrence of p, up to the next "&"
RECURSIVE UpToAmpersand(_)
UpToAmpersand(s) ==
  IF s = <<>> \/ Head(s) = "&" THEN <<>> ELSE <<Head(s)>> \o UpToAmpersand(Tail(s))

RECURSIVE AfterFirst(_, _)
AfterFirst(s, p) ==
  IF s = <<>> THEN <<>>
  ELSE IF MatchAt(s, p, 1) THEN DropFirst(s, Len(p))
  ELSE AfterFirst(Tail(s), p)

\* cleanUrl: the target of a DuckDuckGo redirect link (targets here hold no escapes)
cleanUrl(href) ==
  IF Includes(href, <<"u", "d", "d", "g", "=">>)
  THEN OrElse(UpToAmpersand(AfterFirst(href, <<"u", "d", "d", "g", "=">>)), href)
  ELSE href

\* the result blocks of a DuckDuckGo page turned into results: blocks without link or
\* title, repeated urls and urls not starting with http are skipped
RECURSIVE DdgResultsFrom(_, _)
DdgResultsFrom(blocks, seenUrls) ==
  IF blocks = <<>> THEN <<>>
  ELSE LET block == Head(blocks)
           rawUrl == IF block.href = UNDEF THEN UNDEF ELSE Trim(block.href)
           title == Trim(block.title)
           url == cleanUrl(rawUrl)
           keep == /\ Truthy(rawUrl)
                   /\ Truthy(title)
                   /\ url \notin seenUrls
                   /\ StartsWith(url, <<"h", "t", "t", "p">>)
       IN  IF keep
           THEN <<[url |-> url, title |-> title, description |-> Trim(block.snippet)]>>
                  \o DdgResultsFrom(Tail(blocks), seenUrls \cup {url})
           ELSE DdgResultsFrom(Tail(blocks), seenUrls)

\* duckDuckGoSearch has no try block: an HTTP error status, a network error and the
\* anti-bot page throw
duckDuckGoSearch(reply, numResults) ==
  IF reply.kind = "ok"
  THEN Returned(Take(DdgResultsFrom(reply.blocks, {}), numResults))
  ELSE Thrown

EmptyResponse == [web |-> <<>>, news |-> <<>>, images |-> <<>>]

\* Promise.all of the three Brave requests: rejects when one of them rejects
BraveAll(web, news, images) ==
  IF web.threw \/ news.threw \/ images.threw THEN Thrown
  ELSE Returned([web |-> web.value, news |-> news.value, images |-> images.value])

\* search: Brave when a key is given, DuckDuckGo otherwise; replies holds what each
\* endpoint would answer
search(replies, options) ==
  IF Truthy(options.braveApiKey)
  THEN TryCatch(BraveAll(braveWebSearch(replies.braveWeb, options.numResults),
                         IF options.includeNews
                         THEN braveNewsSearch(replies.braveNews, BraveNewsCount)
                         ELSE Returned(<<>>),
                         IF options.includeImages
                         THEN braveImageSearch(replies.braveImages, BraveImageCount)
                         ELSE Returned(<<>>)),
                EmptyResponse)
  ELSE LET webResults == duckDuckGoSearch(replies.ddg, options.numResults)
       IN  TryCatch(IF webResults.threw THEN Thrown
                    ELSE Returned([web |-> webResults.value, news |-> <<>>,
                                   images |-> <<>>]),
                    EmptyResponse)

\* a faulty variant of SearchRequests: DuckDuckGo is asked as well when Brave finds nothing
SearchRequestsWithFallback(replies, options) ==
  IF Truthy(options.braveApiKey)
  THEN {"brave/web"} \cup (IF options.includeNews THEN {"brave/news"} ELSE {})
         \cup (IF options.includeImages THEN {"brave/images"} ELSE {})
         \cup (IF braveWebSearch(replies.braveWeb, options.numResults).value = <<>>
               THEN {"duckduckgo/html"} ELSE {})
  ELSE {"duckduckgo/html"}

\* the endpoints a search call sends a request to
SearchRequests(replies, options) ==
  IF Truthy(options.braveApiKey)
  THEN {"brave/web"} \cup (IF options.includeNews THEN {"brave/news"} ELSE {})
         \cup (IF options.includeImages THEN {"brave/images"} ELSE {})
  ELSE {"duckduckgo/html"}

----------------------------------------------------------------------------
(* The web the session searches: provider results and the pages behind them *)

\* bounds of the model
MaxWebResults == 2
MaxLayersOption == 3

Pad(n) == [i \in 1..n |-> "x"]

\* provider results: two urls of the same encyclopedia page, a second page, and a url
\* that new URL() rejects
ResultA1 == [url |-> <<"h", "t", "t", "p", ":", "/", "/", "w", "i", "k", "i", "p", "e", "d", "i", "a", ".", "a">>, title |-> <<"A">>, description |-> <<"h", "o", "w", " ", "t", "o", " ", "a", "b", "c">>]
ResultA2 == [url |-> <<"h", "t", "t", "p", "s", ":", "/", "/", "w", "w", "w", ".", "w", "i", "k", "i", "p", "e", "d", "i", "a", ".", "a", "/">>, title |-> <<"A">>, description |-> <<"a", "b", "c">>]
ResultB == [url |-> <<"h", "t", "t", "p", ":", "/", "/", "b", ".", "c">>, title |-> <<"B">>, description |-> <<"a", "u3068", "b", "u3068", "c", " ", "t", "i", "p", "s">>]
ResultBad == [url |-> <<"b", ".", "c">>, title |-> <<"B">>, description |-> <<"t", "i", "p", "s">>]

\* the provider's ranking: every answer lists some of these, in this order
WebRanking == <<ResultA1, ResultA2, ResultB, ResultBad>>

\* a news item and an image item as the Brave endpoints return them
News1 == [url |-> <<"h", "t", "t", "p", ":", "/", "/", "n", ".", "c">>, title |-> <<"N">>, description |-> <<"n", "e", "w", "s">>,
          age |-> <<"1", "d">>, source |-> <<"n">>]
Image1 == [url |-> <<"h", "t", "t", "p", ":", "/", "/", "i", ".", "c">>, title |-> <<"I">>, thumbnail |-> <<"h", "t", "t", "p", ":", "/", "/", "i", ".", "c", "/", "i">>,
           source |-> <<"i">>, width |-> UNDEF, height |-> UNDEF]

\* a second news item and a second image item
News2 == [url |-> <<"h", "t", "t", "p", ":", "/", "/", "m", ".", "c">>, title |-> <<"M">>, description |-> <<"m", "o", "r", "e", " ", "n", "e", "w", "s">>,
          age |-> <<"2", "d">>, source |-> <<"m">>]
Image2 == [url |-> <<"h", "t", "t", "p", ":", "/", "/", "j", ".", "c">>, title |-> UNDEF, thumbnail |-> UNDEF,
           source |-> <<"j">>, width |-> UNDEF, height |-> UNDEF]

\* the page fetch of a url: the first page fails, the second gives a long body,
\* the third gives a body too short to count
PageFetch(url) ==
  CASE url = ResultA2.url ->
         [url |-> url, title |-> <<"A", "2">>, description |-> UNDEF,
          content |-> <<"s", "t", "e", "p", "s", " ", "r", "e", "q", "u", "i", "r", "e", "m", "e", "n", "t", "s", " ", "t", "i", "p", "s", " ">> \o Pad(MinScrapedLength - 23),
          markdown |-> <<"s", "t", "e", "p", "s", " ", "r", "e", "q", "u", "i", "r", "e", "m", "e", "n", "t", "s", " ", "t", "i", "p", "s", " ">> \o Pad(MinScrapedLength - 23),
          favicon |-> UNDEF, ogImage |-> UNDEF, siteName |-> <<"a">>]
    [] url = ResultB.url ->
         [url |-> url, title |-> UNDEF, description |-> UNDEF,
          content |-> <<"s", "h", "o", "r", "t">>, markdown |-> <<"s", "h", "o", "r", "t">>,
          favicon |-> UNDEF, ogImage |-> UNDEF, siteName |-> UNDEF]
    [] OTHER -> NoScrape

\* the increasing index lists of length at most n over 1..m
IndexLists(m, n) ==
  {s \in UNION {[1..k -> 1..m] : k \in 0..Min(m, n)} :
     \A i \in 1..(Len(s) - 1) : s[i] < s[i + 1]}

WebLists ==
  {[i \in 1..Len(s) |-> WebRanking[s[i]]] : s \in IndexLists(Len(WebRanking), MaxWebResults)}

\* an answer carries its news and images or none of them
Media == {[news |-> <<>>, images |-> <<>>], [news |-> <<News1>>, images |-> <<Image1>>]}

ProviderAnswers ==
  {[web |-> w, news |-> m.news, images |-> m.images] : w \in WebLists, m \in Media}

\* the key of the session, and the endpoints' replies when the provider answers with
\* these lists (no key is given to DuckDuckGo, which is not asked)
ApiKey == <<"k">>

Replies(answer) ==
  [braveWeb |-> [kind |-> "ok", items |-> answer.web],
   braveNews |-> [kind |-> "ok", items |-> answer.news],
   braveImages |-> [kind |-> "ok", items |-> answer.images],
   ddg |-> [kind |-> "networkError", blocks |-> <<>>]]

\* the pages of the web, by url
Pages == [url \in {WebRanking[i].url : i \in 1..Len(WebRanking)} |-> PageFetch(url)]

\* the queries of the model
\* factual, simple, depth 1
QueryPlain == <<"a", "b", "c">>
\* howto, depth 2, one keyword, two sub-queries
QueryHowto == <<"h", "o", "w", " ", "a", "b">>
\* factual, complex (two connectives), depth 3, one sub-query at layer 2
QueryComplex == <<"a", "u3068", "b", "u3068", "c">>
\* comparison (chigai), depth 3, no sub-query: one keyword and no separator
QueryNoSubQueries == <<"x", "u9055", "u3044">>

Queries == {QueryPlain, QueryHowto, QueryComplex, QueryNoSubQueries}

\* minCoverage in tenths
MinCoverageTenths == {0, 7}

----------------------------------------------------------------------------
(* Integrated Search over that web *)

\* the scrape results of the urls that could be fetched, in the order of the urls;
\* fetch holds what the page fetch of each url gives
scrapeUrls(urls, fetch) ==
  LET done[i \in 0..Len(urls)] ==
        IF i = 0 THEN <<>>
        ELSE IF fetch[urls[i]] = NoScrape THEN done[i - 1]
        ELSE Append(done[i - 1], fetch[urls[i]])
  IN  done[Len(urls)]

\* the scrape endpoint called once per url: the same results, failures left out
scrapeUrlsParallel(urls, fetch) ==
  SelectSeq([i \in 1..Len(urls) |-> fetch[urls[i]]], LAMBDA r : r # NoScrape)

\* the summary log reads new URL(url).hostname of every url outside any try block
SummaryLogThrows(urls) == \E i \in 1..Len(urls) : ~ IsValidUrl(urls[i])

\* a faulty variant of ScrapedUrls: the pages are fetched whatever scrapeContent says
ScrapedUrlsAlways(searchResults, options) ==
  [i \in 1..Len(searchResults.web) |-> searchResults.web[i].url]

\* the urls integratedSearch hands to the page fetcher
ScrapedUrls(searchResults, options) ==
  IF options.scrapeContent
  THEN [i \in 1..Len(searchResults.web) |-> searchResults.web[i].url]
  ELSE <<>>

\* a faulty variant of MergedWeb: a result whose url has no scrape result is left out
MergedWebScrapedOnly(webResults, scrapedResults) ==
  LET scrapedOnly == SelectSeq(webResults,
                               LAMBDA r : FindScraped(scrapedResults, r.url) # NoScrape)
  IN  [i \in 1..Len(scrapedOnly) |-> MergeScraped(scrapedOnly[i], scrapedResults)]

\* lines 546-582: searchResults.web.map, one merged result per provider result
MergedWeb(webResults, scrapedResults) ==
  [i \in 1..Len(webResults) |-> MergeScraped(webResults[i], scrapedResults)]

\* integratedSearch on the endpoints' replies to its query: threw, or the merged web,
\* news and image lists
integratedSearch(replies, options, fetch) ==
  LET searched == search(replies, options)
      searchResults == searched.value
      urls == [i \in 1..Len(searchResults.web) |-> searchResults.web[i].url]
      scrapedResults == IF options.useParallelScrape
                        THEN scrapeUrlsParallel(ScrapedUrls(searchResults, options), fetch)
                        ELSE scrapeUrls(ScrapedUrls(searchResults, options), fetch)
      web == IF options.scrapeContent
             THEN MergedWeb(searchResults.web, scrapedResults)
             ELSE [i \in 1..Len(searchResults.web) |-> Unscraped(searchResults.web[i])]
  IN  IF searched.threw \/ (options.scrapeContent /\ SummaryLogThrows(urls))
      THEN [threw |-> TRUE, web |-> <<>>, news |-> <<>>, images |-> <<>>]
      ELSE [threw |-> FALSE, web |-> web, news |-> searchResults.news,
            images |-> searchResults.images]

----------------------------------------------------------------------------
(* Multi-Layer Orchestrator: multiLayerSearch *)

VARIABLES
  query,          \* the query of the session
  maxLayers,      \* options.maxLayers
  minCoverage,    \* options.minCoverage, a fraction
  pc,             \* position of the async function
  analysis,       \* the QueryAnalysis
  targetDepth,
  layers,         \* LayerResult list
  allSources,
  allNews,
  imageResults,
  totalSearches,
  currentCoverage,
  layerNum,       \* the loop variable
  subQueries,     \* the sub-queries of the layer being searched
  nextSub,        \* index of the next sub-query of the for loop
  layerSources,
  layerNews,
  inFlight,       \* the integratedSearch calls issued and not yet settled
  calls,          \* every integratedSearch call issued so far, in issue order
  rawLayers,      \* the sources each finished layer produced, before merging
  overlapped,     \* a call of the current layer was issued while another was in flight
  analyzeQuery,   \* options.analyzeQuery: "absent", or how the override behaves
  evaluateCoverage, \* options.evaluateCoverage: "absent", or how the override behaves
  gPc,            \* a call of generateSubQueries on its own: position,
  gCall,          \*   arguments
  gResult,        \*   and returned list
  iPc,            \* a call of integratedSearch on its own: position,
  iCall,          \*   the options, the endpoints' replies and the pages' fetches
  iSearchResults, \*   what search returned
  iRequests,      \*   the endpoints a request was sent to
  iFetched,       \*   the urls handed to the page fetcher
  iResult,        \*   and the outcome
  sCall,          \* a call of scrapeUrls on its own: the urls, what their servers do,
                  \*   and maxConcurrent
  sPc,            \*   position
  sNext,          \*   the loop variable i, as an index from 1
  sFetches,       \*   the scrapeUrl call of each url: phase, timer, outcome
  sResults,       \*   the results array
  cCall,          \* calls of evaluateCoverageSimple on their own: the analysis, a source
                  \*   list and a list that holds it
  cPc,            \*   position
  cResult,        \*   what the two calls returned
  stCall,         \* requests to the search route, from the stream's execute on: the path
                  \*   taken and what the awaited calls do
  stPc,           \*   position
  stChunks,       \*   the chunks written to the stream so far
  stSent,         \*   the answer chunks of the model received so far
  rtCall,         \* requests to POST of the search route: the body and the environment
  rtPc,           \*   position
  rtResponse,     \*   the response returned
  rtSearches,     \*   the integratedSearch calls made
  fwCall,         \* calls of fetchWithRetry: maxRetries and the statuses the server answers
  fwPc,           \*   position
  fwAttempt,      \*   the loop variable attempt
  fwRequests,     \*   the requests issued
  fwWaits,        \*   the waits before the retries, in ms
  fwResult,       \*   the response returned
  aCall,          \* calls of the analyzers on their own
  aPc,            \*   position
  aResult         \*   what the call returned

sessionVars == <<query, maxLayers, minCoverage, pc, analysis, targetDepth, layers,
                 allSources, allNews, imageResults, totalSearches, currentCoverage,
                 layerNum, subQueries, nextSub, layerSources, layerNews, inFlight, calls,
                 rawLayers, overlapped>>

overrideVars == <<analyzeQuery, evaluateCoverage>>

generatorVars == <<gPc, gCall, gResult>>

integratedVars == <<iPc, iCall, iSearchResults, iRequests, iFetched, iResult>>

scrapeVars == <<sCall, sPc, sNext, sFetches, sResults>>

\* the variables of the components called on their own
coverageVars == <<cCall, cPc, cResult>>

streamVars == <<stCall, stPc, stChunks, stSent>>

routeVars == <<rtCall, rtPc, rtResponse, rtSearches>>

retryVars == <<fwCall, fwPc, fwAttempt, fwRequests, fwWaits, fwResult>>

analyzerVars == <<aCall, aPc, aResult>>

serviceVars == <<routeVars, retryVars, analyzerVars>>

componentVars == <<scrapeVars, coverageVars, streamVars, serviceVars>>

vars == <<sessionVars, overrideVars, generatorVars, integratedVars, componentVars>>

DefaultNumResults == 4
FirstLayerExtra == 2
NewsLastLayer == 2

NoAnalysis == [intent |-> "factual", complexity |-> "simple", suggestedDepth |-> 1,
               aspects |-> <<>>, keywords |-> <<>>]

ZeroCoverage == [num |-> 0, den |-> 1]

\* the session's variables at the entry of multiLayerSearch (position "start") and
\* when no session runs (position "idle")
SessionFields(position) ==
  /\ pc = position
  /\ analysis = NoAnalysis
  /\ targetDepth = 0
  /\ layers = <<>>
  /\ allSources = <<>>
  /\ allNews = <<>>
  /\ imageResults = <<>>
  /\ totalSearches = 0
  /\ currentCoverage = ZeroCoverage
  /\ layerNum = 0
  /\ subQueries = <<>>
  /\ nextSub = 0
  /\ layerSources = <<>>
  /\ layerNews = <<>>
  /\ inFlight = {}
  /\ calls = <<>>
  /\ rawLayers = <<>>
  /\ overlapped = FALSE

SessionInputs ==
  /\ query \in Queries
  /\ maxLayers \in 1..MaxLayersOption
  /\ minCoverage \in {[num |-> t, den |-> WeightScale] : t \in MinCoverageTenths}

NoSession ==
  /\ query = <<>>
  /\ maxLayers = 1
  /\ minCoverage = ZeroCoverage
  /\ SessionFields("idle")

NoOverrides == analyzeQuery = "absent" /\ evaluateCoverage = "absent"

NoGeneratorCall == gPc = "idle" /\ gCall = <<>> /\ gResult = <<>>

NoIntegratedCall ==
  /\ iPc = "idle"
  /\ iCall = <<>>
  /\ iSearchResults = Returned(EmptyResponse)
  /\ iRequests = {}
  /\ iFetched = <<>>
  /\ iResult = <<>>

NoScrapeCall ==
  /\ sCall = <<>>
  /\ sPc = "idle"
  /\ sNext = 1
  /\ sFetches = <<>>
  /\ sResults = <<>>

NoCoverageCall == cCall = <<>> /\ cPc = "idle" /\ cResult = <<>>

NoStreamCall == stCall = <<>> /\ stPc = "idle" /\ stChunks = <<>> /\ stSent = 0

NoRouteCall == rtCall = <<>> /\ rtPc = "idle" /\ rtResponse = <<>> /\ rtSearches = 0

NoRetryCall ==
  /\ fwCall = <<>>
  /\ fwPc = "idle"
  /\ fwAttempt = 0
  /\ fwRequests = 0
  /\ fwWaits = <<>>
  /\ fwResult = <<>>

NoAnalyzerCall == aCall = <<>> /\ aPc = "idle" /\ aResult = <<>>

NoServiceCalls == NoRouteCall /\ NoRetryCall /\ NoAnalyzerCall

NoComponentCalls == NoScrapeCall /\ NoCoverageCall /\ NoStreamCall /\ NoServiceCalls

\* a session without overrides
Init ==
  /\ SessionInputs
  /\ SessionFields("start")
  /\ NoOverrides
  /\ NoGeneratorCall
  /\ NoIntegratedCall
  /\ NoComponentCalls

\* a faulty variant of TargetDepth: the option maxLayers is ignored
TargetDepthUncapped(a, max) == a.suggestedDepth

\* the depth the session may reach
TargetDepth(a, max) == Min(a.suggestedDepth, max)

\* the options of the layer-1 call and of a sub-query call of layer n
Layer1Options ==
  [numResults |-> DefaultNumResults + FirstLayerExtra, includeNews |-> TRUE,
   includeImages |-> TRUE, scrapeContent |-> TRUE, braveApiKey |-> ApiKey,
   useParallelScrape |-> TRUE]

\* a faulty variant of SubQueryOptions: news is requested for every layer
SubQueryOptionsWithNews(n) ==
  [numResults |-> DefaultNumResults, includeNews |-> TRUE,
   includeImages |-> FALSE, scrapeContent |-> TRUE, braveApiKey |-> ApiKey,
   useParallelScrape |-> TRUE]

SubQueryOptions(n) ==
  [numResults |-> DefaultNumResults, includeNews |-> (n = NewsLastLayer),
   includeImages |-> FALSE, scrapeContent |-> TRUE, braveApiKey |-> ApiKey,
   useParallelScrape |-> TRUE]

\* what the awaited integratedSearch call of layer 1, and of a sub-query of layer n,
\* can settle with
Layer1Outcomes ==
  {integratedSearch(Replies(answer), Layer1Options, Pages) : answer \in ProviderAnswers}

DeepestLayer == 3

SubQueryOutcomeTable ==
  [n \in 2..DeepestLayer |->
     {integratedSearch(Replies(answer), SubQueryOptions(n), Pages) : answer \in ProviderAnswers}]

SubQueryOutcomes(n) ==
  IF n \in DOMAIN SubQueryOutcomeTable THEN SubQueryOutcomeTable[n] ELSE {}

\* web, news and image items as the orchestrator stores them
ToSource(item, n) ==
  [url |-> item.url, title |-> item.title, description |-> item.description,
   content |-> item.content, markdown |-> item.markdown, favicon |-> item.favicon,
   image |-> item.image, siteName |-> item.siteName, layer |-> n]

ToNews(item, n) ==
  [url |-> item.url, title |-> item.title, description |-> item.description,
   publishedDate |-> item.date, source |-> item.source, image |-> item.imageUrl,
   layer |-> n]

ToImage(item) ==
  [url |-> item.url, title |-> item.title, thumbnail |-> item.imageUrl,
   source |-> item.source, width |-> item.width, height |-> item.height]

MapSources(items, n) == [i \in 1..Len(items) |-> ToSource(items[i], n)]
MapNews(items, n) == [i \in 1..Len(items) |-> ToNews(items[i], n)]
MapImages(items) == [i \in 1..Len(items) |-> ToImage(items[i])]

\* a record of one issued call
Call(n, q, options) ==
  [layer |-> n, query |-> q, includeNews |-> options.includeNews,
   includeImages |-> options.includeImages, numResults |-> options.numResults,
   found |-> <<>>]

\* lines 396-412: analyse the query, fix the depth, issue the layer-1 search
Start ==
  /\ pc = "start"
  /\ analysis' = analyzeQuerySimple(query)
  /\ targetDepth' = TargetDepth(analyzeQuerySimple(query), maxLayers)
  /\ calls' = Append(calls, Call(1, query, Layer1Options))
  /\ inFlight' = {Len(calls) + 1}
  /\ pc' = "layer1"
  /\ UNCHANGED <<overrideVars, generatorVars, integratedVars, componentVars>>
  /\ UNCHANGED <<query, maxLayers, minCoverage, layers, allSources, allNews, imageResults,
                 totalSearches, currentCoverage, layerNum, subQueries, nextSub,
                 layerSources, layerNews, rawLayers, overlapped>>

\* lines 413-467: the layer-1 search returned
Layer1Returns(layer1Result) ==
  LET layer1Sources == MapSources(layer1Result.web, 1)
      layer1News == MapNews(layer1Result.news, 1)
      evaluation == evaluateCoverageSimple(query, layer1Sources, analysis)
  IN  /\ pc = "layer1"
      /\ ~ layer1Result.threw
      /\ totalSearches' = totalSearches + 1
      /\ imageResults' = MapImages(layer1Result.images)
      /\ allSources' = layer1Sources
      /\ allNews' = layer1News
      /\ layers' = Append(layers, [layer |-> 1, query |-> query, sources |-> layer1Sources,
                                   newsResults |-> layer1News,
                                   coverage |-> evaluation.coverage,
                                   gaps |-> evaluation.gaps])
      /\ currentCoverage' = evaluation.coverage
      /\ layerNum' = 2
      /\ inFlight' = {}
      /\ rawLayers' = Append(rawLayers, layer1Sources)
      /\ pc' = "loop"
      /\ UNCHANGED <<overrideVars, generatorVars, integratedVars, componentVars>>
      /\ UNCHANGED <<query, maxLayers, minCoverage, analysis, targetDepth, subQueries,
                     nextSub, layerSources, layerNews, calls, overlapped>>

\* line 406: the layer-1 search threw, and nothing catches it
Layer1Throws(layer1Result) ==
  /\ pc = "layer1"
  /\ layer1Result.threw
  /\ inFlight' = {}
  /\ pc' = "rejected"
  /\ UNCHANGED <<overrideVars, generatorVars, integratedVars, componentVars>>
  /\ UNCHANGED <<query, maxLayers, minCoverage, analysis, targetDepth, layers, allSources,
                 allNews, imageResults, totalSearches, currentCoverage, layerNum,
                 subQueries, nextSub, layerSources, layerNews, calls, rawLayers,
                 overlapped>>

\* a faulty variant of CoverageSufficient: a coverage equal to the minimum is not enough
CoverageSufficientStrict(coverage, minimum) ==
  coverage.num * minimum.den > minimum.num * coverage.den

\* line 471: the coverage reached is enough
CoverageSufficient(coverage, minimum) == FracGeq(coverage, minimum)

\* a faulty variant of ContinuesWith: an empty proposal list does not stop the session
ContinuesWithoutProposals(n, depth, coverage, minimum, proposals) ==
  n <= depth /\ ~ FracGeq(coverage, minimum)

\* lines 469-482: the session goes on to layer n
ContinuesWith(n, depth, coverage, minimum, proposals) ==
  /\ n <= depth
  /\ ~ CoverageSufficient(coverage, minimum)
  /\ Len(proposals) > 0

\* lines 469-488 and 556-563: the loop head; leave the loop and return, or start layer layerNum
LoopHead ==
  LET proposals == generateSubQueries(query, analysis, allSources, layerNum - 1)
      goOn == ContinuesWith(layerNum, targetDepth, currentCoverage, minCoverage, proposals)
  IN  /\ pc = "loop"
      /\ pc' = IF goOn THEN "searching" ELSE "done"
      /\ subQueries' = IF goOn THEN proposals ELSE subQueries
      /\ nextSub' = IF goOn THEN 1 ELSE nextSub
      /\ layerSources' = IF goOn THEN <<>> ELSE layerSources
      /\ layerNews' = IF goOn THEN <<>> ELSE layerNews
      /\ overlapped' = IF goOn THEN FALSE ELSE overlapped
      /\ UNCHANGED <<overrideVars, generatorVars, integratedVars, componentVars>>
      /\ UNCHANGED <<query, maxLayers, minCoverage, analysis, targetDepth, layers,
                     allSources, allNews, imageResults, totalSearches, currentCoverage,
                     layerNum, inFlight, calls, rawLayers>>

\* a faulty variant of MayIssueNext: the searches of a layer are issued together
MayIssueNextAtOnce(pending) == TRUE

\* lines 490-492: the for loop awaits each search before it issues the next
MayIssueNext(pending) == pending = {}

\* lines 490-498: issue the search of the next sub-query
IssueSubQuery ==
  /\ pc = "searching"
  /\ nextSub <= Len(subQueries)
  /\ MayIssueNext(inFlight)
  /\ calls' = Append(calls, Call(layerNum, subQueries[nextSub], SubQueryOptions(layerNum)))
  /\ inFlight' = inFlight \cup {Len(calls) + 1}
  /\ overlapped' = (overlapped \/ inFlight # {})
  /\ nextSub' = nextSub + 1
  /\ UNCHANGED <<overrideVars, generatorVars, integratedVars, componentVars>>
  /\ UNCHANGED <<query, maxLayers, minCoverage, pc, analysis, targetDepth, layers,
                 allSources, allNews, imageResults, totalSearches, currentCoverage,
                 layerNum, subQueries, layerSources, layerNews, rawLayers>>

\* lines 499-527: a sub-query search returned
SubQueryReturns(id, subResult) ==
  /\ pc = "searching"
  /\ id \in inFlight
  /\ ~ subResult.threw
  /\ totalSearches' = totalSearches + 1
  /\ layerSources' = layerSources \o MapSources(subResult.web, layerNum)
  /\ layerNews' = layerNews \o MapNews(subResult.news, layerNum)
  /\ inFlight' = inFlight \ {id}
  /\ calls' = [calls EXCEPT ![id].found = MapSources(subResult.web, layerNum)]
  /\ UNCHANGED <<overrideVars, generatorVars, integratedVars, componentVars>>
  /\ UNCHANGED <<query, maxLayers, minCoverage, pc, analysis, targetDepth, layers,
                 allSources, allNews, imageResults, currentCoverage, layerNum,
                 subQueries, nextSub, rawLayers, overlapped>>

\* lines 528-530: a sub-query search threw; the catch logs it
SubQueryThrows(id, subResult) ==
  /\ pc = "searching"
  /\ id \in inFlight
  /\ subResult.threw
  /\ inFlight' = inFlight \ {id}
  /\ UNCHANGED <<overrideVars, generatorVars, integratedVars, componentVars>>
  /\ UNCHANGED <<query, maxLayers, minCoverage, pc, analysis, targetDepth, layers,
                 allSources, allNews, imageResults, totalSearches, currentCoverage,
                 layerNum, subQueries, nextSub, layerSources, layerNews, calls,
                 rawLayers, overlapped>>

\* a faulty variant of MergedSources: the layer's sources are appended as they are
MergedSourcesAppended(running, found) == running \o found

\* a faulty variant of MergedSources: the layer's sources are put before the running set
MergedSourcesLayerFirst(running, found) == deduplicateSources(found \o running)

\* line 534: the running set with the layer's sources appended, deduplicated
MergedSources(running, found) == deduplicateSources(running \o found)

\* line 535: the part of the merged set behind the old running set's length
AddedSources(merged, running) == SubSeq(merged, Len(running) + 1, Len(merged))

\* a faulty variant of ReevaluatedSources: only the layer's new sources are evaluated
ReevaluatedSourcesAddedOnly(merged, added) == added

\* line 541: the sources the coverage is re-evaluated on
ReevaluatedSources(merged, added) == merged

\* lines 533-554: merge the layer, re-evaluate, record the LayerResult
Merge ==
  LET newSources == MergedSources(allSources, layerSources)
      addedSources == AddedSources(newSources, allSources)
      evaluation == evaluateCoverageSimple(query,
                      ReevaluatedSources(newSources, addedSources), analysis)
  IN  /\ pc = "searching"
      /\ nextSub > Len(subQueries)
      /\ inFlight = {}
      /\ allSources' = newSources
      /\ allNews' = allNews \o layerNews
      /\ currentCoverage' = evaluation.coverage
      /\ layers' = Append(layers, [layer |-> layerNum, query |-> Join(subQueries, <<" ", "|", " ">>),
                                   sources |-> addedSources, newsResults |-> layerNews,
                                   coverage |-> evaluation.coverage,
                                   gaps |-> evaluation.gaps])
      /\ layerNum' = layerNum + 1
      /\ rawLayers' = Append(rawLayers, layerSources)
      /\ pc' = "loop"
      /\ UNCHANGED <<overrideVars, generatorVars, integratedVars, componentVars>>
      /\ UNCHANGED <<query, maxLayers, minCoverage, analysis, targetDepth, imageResults,
                     totalSearches, subQueries, nextSub, layerSources, layerNews, inFlight,
                     calls, overlapped>>

Next ==
  \/ Start
  \/ \E outcome \in Layer1Outcomes : Layer1Returns(outcome)
  \/ \E outcome \in Layer1Outcomes : Layer1Throws(outcome)
  \/ LoopHead
  \/ IssueSubQuery
  \/ \E id \in inFlight : \E outcome \in SubQueryOutcomes(layerNum) :
       SubQueryReturns(id, outcome)
  \/ \E id \in inFlight : \E outcome \in SubQueryOutcomes(layerNum) :
       SubQueryThrows(id, outcome)
  \/ Merge

Spec == Init /\ [][Next]_vars

\* a faulty variant of Result: the final coverage is that of the first layer
ResultOfLayer1 ==
  [layers |-> layers, allSources |-> allSources, allNews |-> allNews,
   imageResults |-> imageResults, totalSearches |-> totalSearches,
   finalCoverage |-> IF layers = <<>> THEN ZeroCoverage ELSE layers[1].coverage]

\* the value multiLayerSearch returns
Result ==
  [layers |-> layers, allSources |-> allSources, allNews |-> allNews,
   imageResults |-> imageResults, totalSearches |-> totalSearches,
   finalCoverage |-> currentCoverage]

----------------------------------------------------------------------------
(* Sessions whose options carry an analyzer or an evaluator override *)

\* what a returning override answers
OverrideAnalysis ==
  [intent |-> "opinion", complexity |-> "simple", suggestedDepth |-> 1,
   aspects |-> <<<<"r", "e", "v", "i", "e", "w", "s">>>>, keywords |-> <<<<"a", "b", "c">>>>]

OverrideEvaluation == [coverage |-> [num |-> 1, den |-> 1], gaps |-> <<>>, subQueries |-> <<>>]

\* the overrides of a session: both returning, or one of them throwing
OverrideChoices ==
  {<<"returns", "returns">>, <<"throws", "absent">>, <<"absent", "throws">>}

DefaultMaxLayers == 2
DefaultMinCoverageTenths == 7

\* a session with the default depth and coverage options and with overrides
OverrideInit ==
  /\ SessionInputs
  /\ maxLayers = DefaultMaxLayers
  /\ minCoverage.num = DefaultMinCoverageTenths
  /\ SessionFields("start")
  /\ \E choice \in OverrideChoices :
       analyzeQuery = choice[1] /\ evaluateCoverage = choice[2]
  /\ NoGeneratorCall
  /\ NoIntegratedCall
  /\ NoComponentCalls

OverrideSpec == OverrideInit /\ [][Next]_vars

----------------------------------------------------------------------------
(* generateSubQueries called on its own *)

MaxGeneratorLayer == 3

QueryAppleSamsung == <<"A", "p", "p", "l", "e", " ", "v", "s", " ", "S", "a", "m", "s", "u", "n", "g">>

GeneratorQueries == Queries \cup {QueryAppleSamsung}

GeneratorIntents ==
  {"factual", "comparison", "howto", "opinion", "current_events", "technical",
   "comprehensive"}

\* the analyses handed to the generator: the analyzer's own, and the same with any
\* intent and with none, one, two or three keywords
GeneratorKeywords == <<<<"a", "b", "c">>, <<"d", "e", "f">>, <<"g", "h", "i">>>>

GeneratorAnalyses(q) ==
  {analyzeQuerySimple(q)}
    \cup {[analyzeQuerySimple(q) EXCEPT !.intent = i, !.keywords = Take(GeneratorKeywords, k)] :
            i \in GeneratorIntents, k \in 0..Len(GeneratorKeywords)}

\* the running sets handed to the generator: empty, without and with an encyclopedia url
GeneratorSources ==
  {<<>>, MapSources(integratedSearch(Replies([web |-> <<ResultB>>, news |-> <<>>, images |-> <<>>]),
                                     Layer1Options, Pages).web, 1),
   MapSources(integratedSearch(Replies([web |-> <<ResultA2>>, news |-> <<>>, images |-> <<>>]),
                               Layer1Options, Pages).web, 1)}

GeneratorCalls ==
  {[originalQuery |-> q, analysis |-> a, existingSources |-> s, layer |-> n] :
     q \in GeneratorQueries, a \in UNION {GeneratorAnalyses(g) : g \in GeneratorQueries},
     s \in GeneratorSources, n \in 0..MaxGeneratorLayer}

GeneratorInit ==
  /\ NoSession
  /\ NoOverrides
  /\ NoIntegratedCall
  /\ NoComponentCalls
  /\ gPc = "called"
  /\ gCall \in GeneratorCalls
  /\ gResult = <<>>

\* lines 232-288: the call returns its list
Generate ==
  /\ gPc = "called"
  /\ gResult' = generateSubQueries(gCall.originalQuery, gCall.analysis,
                                   gCall.existingSources, gCall.layer)
  /\ gPc' = "returned"
  /\ UNCHANGED <<gCall, sessionVars, overrideVars, integratedVars, componentVars>>

GeneratorNext == Generate

GeneratorSpec == GeneratorInit /\ [][GeneratorNext]_vars

----------------------------------------------------------------------------
(* integratedSearch called on its own, over endpoints that fail and pages of any length *)

\* what the page fetch of a url can give besides nothing: a page with its own title
\* and a body too short to count, a body of exactly fifty characters, a longer body
PageShort(url) ==
  [url |-> url, title |-> <<"P">>, description |-> UNDEF, content |-> <<"s", "h", "o", "r", "t">>,
   markdown |-> <<"s", "h", "o", "r", "t">>, favicon |-> UNDEF, ogImage |-> UNDEF, siteName |-> UNDEF]

PageOfLength(url, n) ==
  [url |-> url, title |-> UNDEF, description |-> <<"d">>, content |-> Pad(n),
   markdown |-> Pad(n), favicon |-> <<"f">>, ogImage |-> UNDEF, siteName |-> <<"s">>]

FetchesOf(url) ==
  IF IsValidUrl(url)
  THEN {NoScrape, PageShort(url), PageOfLength(url, MinScrapedLength),
        PageOfLength(url, MinScrapedLength + 1)}
  ELSE {NoScrape}

\* the fetches of a list of results: one choice per url
FetchesFor(results) ==
  LET urls == {results[i].url : i \in 1..Len(results)}
  IN  {f \in [urls -> UNION {FetchesOf(u) : u \in urls}] : \A u \in urls : f[u] \in FetchesOf(u)}

\* what a Brave endpoint answers: a list, an error status, no connection, no JSON
BraveFailures == {"httpError", "networkError", "malformed"}

BraveWebReplies ==
  {[kind |-> "ok", items |-> w] : w \in WebLists}
    \cup {[kind |-> k, items |-> <<>>] : k \in BraveFailures}

\* the news and image endpoints are varied only when they are asked
BraveNewsReplies(asked) ==
  IF asked THEN {[kind |-> "ok", items |-> <<News1>>], [kind |-> "networkError", items |-> <<>>]}
  ELSE {[kind |-> "ok", items |-> <<News1>>]}

BraveImageReplies(asked) ==
  IF asked THEN {[kind |-> "ok", items |-> <<Image1>>], [kind |-> "httpError", items |-> <<>>]}
  ELSE {[kind |-> "ok", items |-> <<Image1>>]}

\* DuckDuckGo result pages: a direct and a redirect link; a repeated link, a link that
\* is no http link, a block without title and a block without snippet
DdgBlocksPlain ==
  <<[href |-> ResultA1.url, title |-> <<"A">>, snippet |-> <<"h", "o", "w", " ", "t", "o", " ", "a", "b", "c">>],
    [href |-> <<"/", "/", "d", "u", "c", "k", "d", "u", "c", "k", "g", "o", ".", "c", "o", "m", "/", "l", "/", "?", "u", "d", "d", "g", "=">> \o ResultB.url \o <<"&", "r", "u", "t", "=", "1">>,
     title |-> <<" ", "B", " ">>, snippet |-> <<"t", "i", "p", "s">>]>>

DdgBlocksMessy ==
  <<[href |-> ResultA1.url, title |-> <<"A">>, snippet |-> <<>>],
    [href |-> <<" ">> \o ResultA1.url, title |-> <<"A", " ", "a", "g", "a", "i", "n">>, snippet |-> <<"a", "b", "c">>],
    [href |-> <<"f", "t", "p", ":", "/", "/", "b", ".", "c">>, title |-> <<"B">>, snippet |-> <<"t", "i", "p", "s">>],
    [href |-> ResultB.url, title |-> <<" ">>, snippet |-> <<"t", "i", "p", "s">>],
    [href |-> UNDEF, title |-> <<"B">>, snippet |-> <<"t", "i", "p", "s">>]>>

DdgFailures == {"httpError", "networkError", "antiBot"}

DdgReplies ==
  {[kind |-> "ok", blocks |-> b] : b \in {<<>>, DdgBlocksPlain, DdgBlocksMessy}}
    \cup {[kind |-> k, blocks |-> <<>>] : k \in DdgFailures}

\* scrapeContent and useParallelScrape of a call
ScrapeModes == {<<FALSE, TRUE>>, <<TRUE, TRUE>>, <<TRUE, FALSE>>}

IntegratedOptions(key, count, news, images, mode) ==
  [numResults |-> count, includeNews |-> news, includeImages |-> images,
   scrapeContent |-> mode[1], braveApiKey |-> key, useParallelScrape |-> mode[2]]

\* calls with a key, and calls without one (no key, or the empty string)
BraveCalls ==
  {[replies |-> [braveWeb |-> w, braveNews |-> n, braveImages |-> i,
                 ddg |-> [kind |-> "ok", blocks |-> DdgBlocksPlain]],
    options |-> IntegratedOptions(ApiKey, DefaultNumResults, news, images, mode)] :
     w \in BraveWebReplies, news \in BOOLEAN, images \in BOOLEAN, mode \in ScrapeModes,
     n \in BraveNewsReplies(TRUE), i \in BraveImageReplies(TRUE)}

DdgCalls ==
  {[replies |-> [braveWeb |-> [kind |-> "ok", items |-> <<ResultA2>>],
                 braveNews |-> [kind |-> "ok", items |-> <<News1>>],
                 braveImages |-> [kind |-> "ok", items |-> <<Image1>>],
                 ddg |-> d],
    options |-> IntegratedOptions(key, DefaultNumResults, TRUE, TRUE, mode)] :
     d \in DdgReplies, key \in {UNDEF, <<>>}, mode \in ScrapeModes}

\* calls that ask for one result of endpoints that have two of each kind
SingleResultCalls ==
  {[replies |-> [braveWeb |-> [kind |-> "ok", items |-> <<ResultA2, ResultB>>],
                 braveNews |-> [kind |-> "ok", items |-> <<News1, News2>>],
                 braveImages |-> [kind |-> "ok", items |-> <<Image1, Image2>>],
                 ddg |-> [kind |-> "ok", blocks |-> DdgBlocksPlain]],
    options |-> IntegratedOptions(key, 1, news, TRUE, mode)] :
     key \in {ApiKey, UNDEF}, news \in BOOLEAN, mode \in ScrapeModes}

IntegratedCalls ==
  {c \in BraveCalls :
     /\ c.replies.braveNews \in BraveNewsReplies(c.options.includeNews)
     /\ c.replies.braveImages \in BraveImageReplies(c.options.includeImages)}
    \cup DdgCalls \cup SingleResultCalls

\* the query of a call: the endpoints answer as they do, whatever the query
IntegratedQueries == {<<>>, QueryPlain}

IntegratedInit ==
  /\ NoSession
  /\ NoOverrides
  /\ NoGeneratorCall
  /\ NoComponentCalls
  /\ iPc = "called"
  /\ \E c \in IntegratedCalls :
       \E f \in FetchesFor(search(c.replies, c.options).value.web) :
         \E q \in IntegratedQueries :
           iCall = [query |-> q, replies |-> c.replies, options |-> c.options,
                    fetch |-> f]
  /\ iSearchResults = Returned(EmptyResponse)
  /\ iRequests = {}
  /\ iFetched = <<>>
  /\ iResult = <<>>

\* lines 516-521: the awaited search call
ISearch ==
  /\ iPc = "called"
  /\ iSearchResults' = search(iCall.replies, iCall.options)
  /\ iRequests' = SearchRequests(iCall.replies, iCall.options)
  /\ iPc' = IF search(iCall.replies, iCall.options).threw THEN "threw" ELSE "searched"
  /\ UNCHANGED <<iCall, iFetched, iResult, sessionVars, overrideVars, generatorVars,
                 componentVars>>

\* lines 527-535: the urls are handed to the page fetcher, or not
IScrape ==
  /\ iPc = "searched"
  /\ iFetched' = ScrapedUrls(iSearchResults.value, iCall.options)
  /\ iPc' = "scraped"
  /\ UNCHANGED <<iCall, iSearchResults, iRequests, iResult, sessionVars, overrideVars,
                 generatorVars, componentVars>>

\* lines 537-630: the summary log, the merge and the return
IReturn ==
  /\ iPc = "scraped"
  /\ iResult' = integratedSearch(iCall.replies, iCall.options, iCall.fetch)
  /\ iPc' = IF integratedSearch(iCall.replies, iCall.options, iCall.fetch).threw
            THEN "threw" ELSE "returned"
  /\ UNCHANGED <<iCall, iSearchResults, iRequests, iFetched, sessionVars, overrideVars,
                 generatorVars, componentVars>>

IntegratedNext == ISearch \/ IScrape \/ IReturn

IntegratedSpec == IntegratedInit /\ [][IntegratedNext]_vars

----------------------------------------------------------------------------
(* Page Fetcher: scrapeUrl and scrapeUrls of lib/scraper/scrape.ts, called on their own *)

\* the fixed sizes of scrapeUrl
MaxContentLength == 50000
ContentLimit == 10000
MarkdownLimit == 20000

\* bound of the model
MaxScrapeUrls == 3

\* what the server of a url does: refuses the connection, never answers, answers with
\* an error status, with something that is no HTML, with a page, with a page longer
\* than the maximum length, or with the headers of a page whose body never ends
ServerKinds == {"refuses", "silent", "status", "notHtml", "page", "longPage", "stalls"}

\* the number of characters of the body a server sends
BodyChars(kind) == IF kind = "longPage" THEN MaxContentLength + 1 ELSE 100

\* null
NullResult == [url |-> UNDEF, htmlChars |-> 0, contentChars |-> 0, markdownChars |-> 0]

\* the html after the cut to the maximum length
Truncated(chars) == Min(chars, MaxContentLength)

\* the result built from a body: the text and the markdown drawn from the html are
\* taken to be as long as the html, and are cut to their limits
ScrapeResultOf(url, chars) ==
  [url |-> url, htmlChars |-> Truncated(chars),
   contentChars |-> Min(Truncated(chars), ContentLimit),
   markdownChars |-> Min(Truncated(chars), MarkdownLimit)]

\* a scrapeUrl call in its phases
NotStarted == [phase |-> "pending", timer |-> FALSE, cause |-> "none", value |-> NullResult]
Connecting == [phase |-> "connecting", timer |-> TRUE, cause |-> "none", value |-> NullResult]
Reading == [phase |-> "reading", timer |-> FALSE, cause |-> "none", value |-> NullResult]

\* return null before the body is read: the timer has been cleared
ReturnsNull(cause) ==
  [phase |-> "settled", timer |-> FALSE, cause |-> cause, value |-> NullResult]

\* a faulty variant of CatchBlock: the error is thrown on
CatchBlockRethrows(cause) ==
  [phase |-> "rejected", timer |-> FALSE, cause |-> cause, value |-> NullResult]

\* catch (error) { ... return null }
CatchBlock(cause) ==
  [phase |-> "settled", timer |-> FALSE, cause |-> cause, value |-> NullResult]

\* a faulty variant of Batch: all remaining urls are started at once
BatchUnbounded(urls, i, maxConcurrent) == i..Len(urls)

\* urls.slice(i, i + maxConcurrent), as indices from 1
Batch(urls, i, maxConcurrent) == i..Min(i + maxConcurrent - 1, Len(urls))

\* the calls in flight
InFlight == {i \in 1..Len(sFetches) : sFetches[i].phase \in {"connecting", "reading"}}

ScrapeUrlPool == <<ResultA1.url, ResultA2.url, ResultB.url, News1.url, Image1.url>>

ConcurrencyOptions == {1, 2}

ScrapeCalls ==
  {[urls |-> Take(ScrapeUrlPool, n), servers |-> s, maxConcurrent |-> m] :
     n \in 1..MaxScrapeUrls, s \in UNION {[1..k -> ServerKinds] : k \in 1..MaxScrapeUrls},
     m \in ConcurrencyOptions}

ScrapeInit ==
  /\ NoSession
  /\ NoOverrides
  /\ NoGeneratorCall
  /\ NoIntegratedCall
  /\ NoCoverageCall
  /\ NoStreamCall
  /\ NoServiceCalls
  /\ sCall \in {c \in ScrapeCalls : Len(c.urls) = Len(c.servers)}
  /\ sPc = "loop"
  /\ sNext = 1
  /\ sFetches = [i \in 1..Len(sCall.urls) |-> NotStarted]
  /\ sResults = <<>>

ScrapeIdle ==
  UNCHANGED <<sessionVars, overrideVars, generatorVars, integratedVars, coverageVars,
              streamVars, serviceVars>>

\* scrape.ts lines 284-288: the loop test, the batch, and scrapeUrl of each member up
\* to its await fetch (lines 199-210)
SStartBatch ==
  /\ sPc = "loop"
  /\ sNext <= Len(sCall.urls)
  /\ sFetches' = [i \in 1..Len(sFetches) |->
                    IF i \in Batch(sCall.urls, sNext, sCall.maxConcurrent)
                    THEN Connecting ELSE sFetches[i]]
  /\ sPc' = "awaiting"
  /\ UNCHANGED <<sCall, sNext, sResults>>
  /\ ScrapeIdle

\* lines 203-223: the response arrives; the timer is cleared, an error status and a
\* content type other than text/html return null
SHeaders(i) ==
  /\ sFetches[i].phase = "connecting"
  /\ sCall.servers[i] \in {"status", "notHtml", "page", "longPage", "stalls"}
  /\ sFetches' = [sFetches EXCEPT ![i] =
                    CASE sCall.servers[i] = "status" -> ReturnsNull("status")
                      [] sCall.servers[i] = "notHtml" -> ReturnsNull("contentType")
                      [] OTHER -> Reading]
  /\ UNCHANGED <<sCall, sPc, sNext, sResults>>
  /\ ScrapeIdle

\* lines 203, 261-268: fetch rejects with a network error
SNetworkError(i) ==
  /\ sFetches[i].phase = "connecting"
  /\ sCall.servers[i] = "refuses"
  /\ sFetches' = [sFetches EXCEPT ![i] = CatchBlock("network")]
  /\ UNCHANGED <<sCall, sPc, sNext, sResults>>
  /\ ScrapeIdle

\* lines 201, 261-268: the timer fires, the controller aborts the fetch
STimeout(i) ==
  /\ sFetches[i].phase \in {"connecting", "reading"}
  /\ sFetches[i].timer
  /\ sFetches' = [sFetches EXCEPT ![i] = CatchBlock("timeout")]
  /\ UNCHANGED <<sCall, sPc, sNext, sResults>>
  /\ ScrapeIdle

\* lines 225-260: the body has arrived; it is cut, parsed and returned
SBody(i) ==
  /\ sFetches[i].phase = "reading"
  /\ sCall.servers[i] \in {"page", "longPage"}
  /\ sFetches' = [sFetches EXCEPT ![i] =
                    [phase |-> "settled", timer |-> FALSE, cause |-> "body",
                     value |-> ScrapeResultOf(sCall.urls[i], BodyChars(sCall.servers[i]))]]
  /\ UNCHANGED <<sCall, sPc, sNext, sResults>>
  /\ ScrapeIdle

\* the results of the batch that are not null, in the order of the batch
BatchResults(members) ==
  LET values == [k \in 1..Cardinality(members) |-> sFetches[sNext + k - 1].value]
  IN  SelectSeq(values, LAMBDA v : v # NullResult)

\* lines 286-295: Promise.all of the batch settles: fulfilled when every member is,
\* rejected as soon as one member is; the results are pushed and i is advanced
SBatchSettles ==
  LET members == {i \in 1..Len(sFetches) : sNext <= i /\ sFetches[i].phase # "pending"}
      rejected == \E i \in members : sFetches[i].phase = "rejected"
  IN  /\ sPc = "awaiting"
      /\ rejected \/ \A i \in members : sFetches[i].phase = "settled"
      /\ sPc' = IF rejected THEN "rejected" ELSE "loop"
      /\ sResults' = IF rejected THEN sResults ELSE sResults \o BatchResults(members)
      /\ sNext' = IF rejected THEN sNext ELSE sNext + sCall.maxConcurrent
      /\ UNCHANGED <<sCall, sFetches>>
      /\ ScrapeIdle

\* line 297: return results
SReturn ==
  /\ sPc = "loop"
  /\ sNext > Len(sCall.urls)
  /\ sPc' = "returned"
  /\ UNCHANGED <<sCall, sNext, sFetches, sResults>>
  /\ ScrapeIdle

ScrapeNext ==
  \/ SStartBatch
  \/ \E i \in 1..Len(sFetches) : SHeaders(i)
  \/ \E i \in 1..Len(sFetches) : SNetworkError(i)
  \/ \E i \in 1..Len(sFetches) : STimeout(i)
  \/ \E i \in 1..Len(sFetches) : SBody(i)
  \/ SBatchSettles
  \/ SReturn

ScrapeSpec == ScrapeInit /\ [][ScrapeNext]_vars

----------------------------------------------------------------------------
(* Coverage Evaluator: evaluateCoverageSimple called on a source list and on a list *)
(* that holds it                                                                     *)

\* bound of the model
MaxCoverageSources == 3

\* sources: one whose text ends in "is", one without trigger words, one whose title
\* starts with "a", one on the method
SourcePool ==
  <<[url |-> <<"h", "t", "t", "p", ":", "/", "/", "s", ".", "c", "/", "1">>, title |-> <<"x">>, description |-> UNDEF,
     content |-> <<"t", "h", "i", "s", " ", "i", "s">>],
    [url |-> <<"h", "t", "t", "p", ":", "/", "/", "s", ".", "c", "/", "2">>, title |-> <<"H", "o", "w">>, description |-> <<"A", "B", "C">>,
     content |-> UNDEF],
    [url |-> <<"h", "t", "t", "p", ":", "/", "/", "s", ".", "c", "/", "3">>, title |-> <<"a", " ", "t", "i", "p", "s">>, description |-> <<>>,
     content |-> <<>>],
    [url |-> <<"h", "t", "t", "p", ":", "/", "/", "s", ".", "c", "/", "4">>, title |-> <<"g", "u", "i", "d", "e">>, description |-> <<"s", "t", "e", "p", "s">>,
     content |-> <<"t", "o", " ", "d", "o">>]>>

CoverageSources == Take(SourcePool, MaxCoverageSources)

PickFrom(list, indices) == [i \in 1..Len(indices) |-> list[indices[i]]]

\* the lists drawn from a list, order kept
ListsWithin(list) == {PickFrom(list, s) : s \in IndexLists(Len(list), Len(list))}

CoverageAspects ==
  {<<>>, <<<<"d", "e", "f", "i", "n", "i", "t", "i", "o", "n">>>>, <<<<"d", "e", "f", "i", "n", "i", "t", "i", "o", "n">>, <<"m", "e", "t", "h", "o", "d">>>>, <<<<"m", "e", "t", "h", "o", "d">>, <<"t", "i", "p", "s">>>>}

CoverageKeywords == {<<>>, <<<<"a", "b", "c">>>>, <<<<"A", "B", "C">>, <<"z", "z", "z">>>>, <<<<"t", "i", "p", "s">>, <<"h", "o", "w">>, <<"x">>>>}

CoverageCalls ==
  {[query |-> QueryPlain,
    analysis |-> [NoAnalysis EXCEPT !.aspects = a, !.keywords = k],
    sources |-> base, superset |-> extended] :
     a \in CoverageAspects, k \in CoverageKeywords,
     extended \in ListsWithin(CoverageSources),
     base \in UNION {ListsWithin(e) : e \in ListsWithin(CoverageSources)}}

CoverageInit ==
  /\ NoSession
  /\ NoOverrides
  /\ NoGeneratorCall
  /\ NoIntegratedCall
  /\ NoScrapeCall
  /\ NoStreamCall
  /\ NoServiceCalls
  /\ cCall \in {c \in CoverageCalls : c.sources \in ListsWithin(c.superset)}
  /\ cPc = "called"
  /\ cResult = <<>>

\* part_006 lines 293-347: the two calls return
Evaluate ==
  /\ cPc = "called"
  /\ cResult' = [base |-> evaluateCoverageSimple(cCall.query, cCall.sources, cCall.analysis),
                 extended |-> evaluateCoverageSimple(cCall.query, cCall.superset,
                                                     cCall.analysis)]
  /\ cPc' = "returned"
  /\ UNCHANGED <<cCall, sessionVars, overrideVars, generatorVars, integratedVars,
                 scrapeVars, streamVars, serviceVars>>

CoverageNext == Evaluate

CoverageSpec == CoverageInit /\ [][CoverageNext]_vars

----------------------------------------------------------------------------
(* Search route: what execute writes to the UI message stream                        *)
(* (src/app/ai-settings.tsx lines 559-879)                                           *)

\* bound of the model
MaxAnswerChunks == 3

Chunk(type, id) == [type |-> type, id |-> id]

\* result.toUIMessageStream() of the AI SDK: a framed text block under an id of the
\* SDK's own
SdkTextStream(n) ==
  <<Chunk("text-start", "sdk-text")>> \o [i \in 1..n |-> Chunk("text-delta", "sdk-text")]
    \o <<Chunk("text-end", "sdk-text")>>

\* useDirectFetch: line 549; the other fields say what the awaited calls do
StreamCalls ==
  {[useDirectFetch |-> direct, searchThrows |-> s, answerChunks |-> n,
    answerThrows |-> a, followUpThrows |-> f] :
     direct \in BOOLEAN, s \in BOOLEAN, n \in 0..MaxAnswerChunks, a \in BOOLEAN,
     f \in BOOLEAN}

StreamInit ==
  /\ NoSession
  /\ NoOverrides
  /\ NoGeneratorCall
  /\ NoIntegratedCall
  /\ NoScrapeCall
  /\ NoCoverageCall
  /\ NoServiceCalls
  /\ stCall \in {c \in StreamCalls : c.answerThrows => c.useDirectFetch}
  /\ stPc = "started"
  /\ stChunks = <<>>
  /\ stSent = 0

StreamIdle ==
  UNCHANGED <<sessionVars, overrideVars, generatorVars, integratedVars, scrapeVars,
              coverageVars, serviceVars>>

\* lines 592-607: the two status parts, then the search is awaited
StBegin ==
  /\ stPc = "started"
  /\ stChunks' = stChunks \o <<Chunk("data-status", "status-1"),
                               Chunk("data-status", "status-2")>>
  /\ stPc' = "searching"
  /\ UNCHANGED <<stCall, stSent>>
  /\ StreamIdle

\* lines 607-742: the search returned; sources and status are written and the answer
\* is requested
StSearched ==
  /\ stPc = "searching"
  /\ ~stCall.searchThrows
  /\ stChunks' = stChunks \o <<Chunk("data-sources", "sources-1"),
                               Chunk("data-status", "status-3")>>
  /\ stPc' = "answering"
  /\ UNCHANGED <<stCall, stSent>>
  /\ StreamIdle

\* lines 744-751: one chunk of the direct stream is written as it arrives
StDelta ==
  /\ stPc = "answering"
  /\ stCall.useDirectFetch
  /\ stSent < stCall.answerChunks
  /\ stChunks' = Append(stChunks, Chunk("text-delta", "main-text"))
  /\ stSent' = stSent + 1
  /\ UNCHANGED <<stCall, stPc>>
  /\ StreamIdle

\* lines 752-769: the stream of the AI SDK is merged and its text awaited
StMerge ==
  /\ stPc = "answering"
  /\ ~stCall.useDirectFetch
  /\ stChunks[Len(stChunks)].type # "text-end"
  /\ stChunks' = stChunks \o SdkTextStream(stCall.answerChunks)
  /\ stSent' = stCall.answerChunks
  /\ UNCHANGED <<stCall, stPc>>
  /\ StreamIdle

AnswerComplete ==
  /\ stPc = "answering"
  /\ stSent = stCall.answerChunks
  /\ \/ stCall.useDirectFetch
     \/ stChunks[Len(stChunks)].type = "text-end"

\* lines 607 and 744: an awaited call of the outer try block throws
StThrows ==
  /\ \/ stPc = "searching" /\ stCall.searchThrows
     \/ AnswerComplete /\ stCall.answerThrows
  /\ stPc' = "failed"
  /\ UNCHANGED <<stCall, stChunks, stSent>>
  /\ StreamIdle

\* lines 773-832: the follow-up questions; a failure is logged only
StFollowUp ==
  /\ AnswerComplete
  /\ ~stCall.answerThrows
  /\ stChunks' = IF stCall.followUpThrows THEN stChunks
                 ELSE Append(stChunks, Chunk("data-followup", "followup-1"))
  /\ stPc' = "closed"
  /\ UNCHANGED <<stCall, stSent>>
  /\ StreamIdle

\* lines 834-877: the catch block writes the error part and the error text
StError ==
  /\ stPc = "failed"
  /\ stChunks' = stChunks \o <<Chunk("data-error", "error-1"),
                               Chunk("text-delta", "error-text")>>
  /\ stPc' = "closed"
  /\ UNCHANGED <<stCall, stSent>>
  /\ StreamIdle

StreamNext ==
  \/ StBegin
  \/ StSearched
  \/ StDelta
  \/ StMerge
  \/ StThrows
  \/ StFollowUp
  \/ StError

StreamSpec == StreamInit /\ [][StreamNext]_vars

----------------------------------------------------------------------------
(* Search route: POST up to the response                                             *)
(* (src/app/api/fireplexity/search/route.ts lines 13-391)                            *)

\* a part of a message; null stands for a part that is no object
Part(kind, type, text) == [kind |-> kind, type |-> type, text |-> text]

\* a message: parts is absent, an array or some other truthy value
Message(kind, parts, items, content) ==
  [kind |-> kind, parts |-> parts, items |-> items, content |-> content]

PartLists ==
  {<<>>,
   <<Part("object", "text", <<"a", "b">>)>>,
   <<Part("object", "text", <<"a">>), Part("object", "file", UNDEF),
     Part("object", "text", <<"b">>)>>,
   <<Part("object", "file", UNDEF)>>,
   <<Part("object", "text", UNDEF)>>,
   <<Part("null", "text", UNDEF)>>}

RouteMessages ==
  {Message("null", "absent", <<>>, UNDEF),
   Message("object", "other", <<>>, <<"a", "b">>),
   Message("object", "absent", <<>>, <<"a", "b">>),
   Message("object", "absent", <<>>, <<>>),
   Message("object", "absent", <<>>, UNDEF)}
    \cup {Message("object", "array", items, <<"a", "b">>) : items \in PartLists}

FirstMessage == Message("object", "absent", <<>>, <<"f", "i", "r", "s", "t">>)

Body(json, q, messages, provider, openaiApiKey) ==
  [json |-> json, query |-> q, messages |-> messages, provider |-> provider,
   openaiApiKey |-> openaiApiKey]

\* request bodies: text that is no JSON, the JSON value null, and objects
RouteBodies ==
  {Body("invalid", UNDEF, <<>>, "absent", FALSE), Body("null", UNDEF, <<>>, "absent", FALSE)}
    \cup {Body("object", q, m, p, k) :
            q \in {UNDEF, <<>>, QueryPlain},
            m \in {<<>>} \cup {<<last>> : last \in RouteMessages}
                         \cup {<<FirstMessage, last>> : last \in RouteMessages},
            p \in {"absent", "groq", "openai", "other"},
            k \in BOOLEAN}

\* process.env: GROQ_API_KEY and OPENAI_API_KEY are set or not
RouteEnvs == [groqApiKey : BOOLEAN, openaiApiKey : BOOLEAN]

\* p.text of the text parts joined; undefined is joined as the empty string
TextOfParts(items) ==
  LET textParts == SelectSeq(items, LAMBDA p : p.type = "text")
  IN  Join([i \in 1..Len(textParts) |-> OrElse(textParts[i].text, <<>>)], <<" ">>)

\* lines 16-28: the query of the body, or that of the last message; reading a
\* property of null and calling filter on a value that is no array throw
ExtractQuery(body) ==
  IF body.json = "null" THEN Thrown
  ELSE IF Truthy(body.query) \/ body.messages = <<>> THEN Returned(body.query)
  ELSE LET lastMessage == body.messages[Len(body.messages)]
       IN  IF lastMessage.kind = "null" THEN Thrown
           ELSE IF lastMessage.parts = "other" THEN Thrown
           ELSE IF lastMessage.parts = "array"
             THEN IF \E i \in 1..Len(lastMessage.items) : lastMessage.items[i].kind = "null"
                    THEN Thrown
                    ELSE Returned(TextOfParts(lastMessage.items))
           ELSE IF Truthy(lastMessage.content) THEN Returned(lastMessage.content)
           ELSE Returned(body.query)

\* line 36: body.openaiApiKey || process.env.OPENAI_API_KEY
HasOpenaiKey(body, env) == body.openaiApiKey \/ env.openaiApiKey

\* line 46: body.provider || (openaiApiKey ? 'openai' : 'groq')
ProviderOf(body, env) ==
  IF body.provider # "absent" THEN body.provider
  ELSE IF HasOpenaiKey(body, env) THEN "openai" ELSE "groq"

\* lines 72-76: the model of the selected provider, of Groq otherwise, or none
ModelOf(body, env) ==
  IF ProviderOf(body, env) = "openai" /\ HasOpenaiKey(body, env) THEN "openai"
  ELSE IF env.groqApiKey THEN "groq" ELSE "none"

Response(status, stream) == [status |-> status, stream |-> stream]

\* a faulty variant of KeyMissing: the key of the provider is not looked at
KeyNeverMissing(body, env) == FALSE

\* lines 49-55: the key of the selected provider is not set
KeyMissing(body, env) ==
  \/ ProviderOf(body, env) = "groq" /\ ~env.groqApiKey
  \/ ProviderOf(body, env) = "openai" /\ ~HasOpenaiKey(body, env)

\* lines 16-391: the response to a body that was read
Respond(body, env) ==
  LET taken == ExtractQuery(body)
  IN  IF taken.threw THEN Response(500, FALSE)
      ELSE IF ~Truthy(taken.value) THEN Response(400, FALSE)
      ELSE IF KeyMissing(body, env) THEN Response(500, FALSE)
      ELSE IF ModelOf(body, env) = "none" THEN Response(500, FALSE)
      ELSE Response(200, TRUE)

RouteInit ==
  /\ NoSession
  /\ NoOverrides
  /\ NoGeneratorCall
  /\ NoIntegratedCall
  /\ NoScrapeCall
  /\ NoCoverageCall
  /\ NoStreamCall
  /\ NoRetryCall
  /\ NoAnalyzerCall
  /\ rtCall \in [body : RouteBodies, env : RouteEnvs]
  /\ rtPc = "received"
  /\ rtResponse = <<>>
  /\ rtSearches = 0

RouteIdle ==
  UNCHANGED <<sessionVars, overrideVars, generatorVars, integratedVars, scrapeVars,
              coverageVars, streamVars, retryVars, analyzerVars>>

\* line 15: request.json() returns the body or throws, caught at lines 385-391
RtReadBody ==
  /\ rtPc = "received"
  /\ IF rtCall.body.json = "invalid"
       THEN rtResponse' = Response(500, FALSE) /\ rtPc' = "responded"
       ELSE rtResponse' = rtResponse /\ rtPc' = "parsed"
  /\ UNCHANGED <<rtCall, rtSearches>>
  /\ RouteIdle

\* lines 16-383: the checks, then the stream is created and returned
RtRespond ==
  /\ rtPc = "parsed"
  /\ rtResponse' = Respond(rtCall.body, rtCall.env)
  /\ rtPc' = IF rtResponse'.stream THEN "streaming" ELSE "responded"
  /\ UNCHANGED <<rtCall, rtSearches>>
  /\ RouteIdle

\* lines 88-140: execute of the stream calls integratedSearch
RtExecute ==
  /\ rtPc = "streaming"
  /\ rtSearches' = rtSearches + 1
  /\ rtPc' = "searched"
  /\ UNCHANGED <<rtCall, rtResponse>>
  /\ RouteIdle

RouteNext ==
  \/ RtReadBody
  \/ RtRespond
  \/ RtExecute

RouteSpec == RouteInit /\ [][RouteNext]_vars

----------------------------------------------------------------------------
(* Search client: fetchWithRetry (src/unnamed/part_004 lines 100-122)                *)

\* bound of the model
MaxRetriesOption == 7

\* line 112: the wait grows by a second per attempt, up to five seconds
WaitStep == 1000
WaitCeiling == 5000

\* a faulty variant of WaitTime: the wait grows without a ceiling
WaitTimeUnbounded(attempt) == (attempt + 1) * WaitStep

\* line 112: Math.min((attempt + 1) * 1000, 5000)
WaitTime(attempt) == Min((attempt + 1) * WaitStep, WaitCeiling)

\* what fetch does: a response with a status, or a network error
Answer(kind, status) == [kind |-> kind, status |-> status]

\* the server answers 429 to the first requests and then with a last answer
RetryCalls ==
  {[maxRetries |-> m, limited |-> n, last |-> a] :
     m \in -1..MaxRetriesOption, n \in 0..(MaxRetriesOption + 1),
     a \in {Answer("response", 200), Answer("response", 500), Answer("error", 0)}}

\* the answer to the request with this number
AnswerTo(call, request) ==
  IF request <= call.limited THEN Answer("response", 429) ELSE call.last

RetryInit ==
  /\ NoSession
  /\ NoOverrides
  /\ NoGeneratorCall
  /\ NoIntegratedCall
  /\ NoScrapeCall
  /\ NoCoverageCall
  /\ NoStreamCall
  /\ NoRouteCall
  /\ NoAnalyzerCall
  /\ fwCall \in {c \in RetryCalls : c.limited <= c.maxRetries + 1}
  /\ fwPc = "loop"
  /\ fwAttempt = 0
  /\ fwRequests = 0
  /\ fwWaits = <<>>
  /\ fwResult = <<>>

RetryIdle ==
  UNCHANGED <<sessionVars, overrideVars, generatorVars, integratedVars, scrapeVars,
              coverageVars, streamVars, routeVars, analyzerVars>>

\* lines 108-109 and 121: the loop test; a request is issued, or the loop is left and
\* the function throws
FwLoopHead ==
  /\ fwPc = "loop"
  /\ IF fwAttempt <= fwCall.maxRetries
       THEN fwRequests' = fwRequests + 1 /\ fwPc' = "fetching"
       ELSE fwRequests' = fwRequests /\ fwPc' = "rejected"
  /\ UNCHANGED <<fwCall, fwAttempt, fwWaits, fwResult>>
  /\ RetryIdle

\* lines 109-118: fetch settles; on 429 before the last attempt the wait is started,
\* any other response is returned, an error of fetch rejects the call
FwSettled ==
  LET response == AnswerTo(fwCall, fwRequests)
  IN  /\ fwPc = "fetching"
      /\ IF response.kind = "error"
           THEN fwPc' = "rejected" /\ UNCHANGED <<fwWaits, fwResult>>
           ELSE IF response.status = 429 /\ fwAttempt < fwCall.maxRetries
             THEN /\ fwWaits' = Append(fwWaits, WaitTime(fwAttempt))
                  /\ fwPc' = "waiting"
                  /\ UNCHANGED fwResult
             ELSE fwResult' = response /\ fwPc' = "returned" /\ UNCHANGED fwWaits
      /\ UNCHANGED <<fwCall, fwAttempt, fwRequests>>
      /\ RetryIdle

\* lines 114-115 and 108: the wait is over, continue with attempt++
FwWaited ==
  /\ fwPc = "waiting"
  /\ fwAttempt' = fwAttempt + 1
  /\ fwPc' = "loop"
  /\ UNCHANGED <<fwCall, fwRequests, fwWaits, fwResult>>
  /\ RetryIdle

RetryNext ==
  \/ FwLoopHead
  \/ FwSettled
  \/ FwWaited

RetrySpec == RetryInit /\ [][RetryNext]_vars

----------------------------------------------------------------------------
(* Query Analyzer on its own: detectQueryAspects and analyzeQueryWithLLM             *)
(* (src/unnamed/part_006 lines 196-227 and 569-599)                                  *)

\* a word per cue of detectQueryAspects, the last cue of the rule table first
CueWords == <<<<"w", "h", "o">>, <<"W", "H", "E", "R", "E">>, <<"u3044", "u3064">>, <<"u65B9", "u6CD5">>, <<"w", "h", "y">>, <<"u4F55">>>>

\* the cue-based aspects in the order of the rule table
CueAspects ==
  <<<<"d", "e", "f", "i", "n", "i", "t", "i", "o", "n">>, <<"r", "e", "a", "s", "o", "n">>, <<"m", "e", "t", "h", "o", "d">>, <<"t", "i", "m", "i", "n", "g">>, <<"l", "o", "c", "a", "t", "i", "o", "n">>, <<"p", "e", "r", "s", "o", "n">>>>

\* the fields of a QueryAnalysis
AnalysisFields == {"intent", "complexity", "suggestedDepth", "aspects", "keywords"}

\* an object with some of the fields of a QueryAnalysis
Object(present, intent, complexity, suggestedDepth, aspects, keywords) ==
  [present |-> present, intent |-> intent, complexity |-> complexity,
   suggestedDepth |-> suggestedDepth, aspects |-> aspects, keywords |-> keywords]

ObjectOf(a) ==
  Object(AnalysisFields, a.intent, a.complexity, a.suggestedDepth, a.aspects, a.keywords)

\* JSON documents a model may answer with: an analysis, an object without fields, an
\* object with an intent outside the enum and a depth outside 1..3, and a broken one
DocAnalysis ==
  <<"{", "\"", "i", "n", "t", "e", "n", "t", "\"", ":", "\"", "h", "o", "w", "t", "o", "\"", ",", "\"", "c", "o", "m", "p", "l", "e", "x", "i", "t", "y", "\"", ":", "\"", "s", "i", "m", "p", "l", "e", "\"", ",", "\"", "s", "u", "g", "g", "e", "s", "t", "e", "d", "D", "e", "p", "t", "h", "\"", ":", "2", ",", "\"", "a", "s", "p", "e", "c", "t", "s", "\"", ":", "[", "\"", "s", "t", "e", "p", "s", "\"", "]", ",", "\"", "k", "e", "y", "w", "o", "r", "d", "s", "\"", ":", "[", "\"", "a", "b", "\"", "]", "}">>
DocEmpty == <<"{", "}">>
DocMistyped ==
  <<"{", "\"", "i", "n", "t", "e", "n", "t", "\"", ":", "\"", "b", "a", "n", "a", "n", "a", "\"", ",", "\"", "c", "o", "m", "p", "l", "e", "x", "i", "t", "y", "\"", ":", "\"", "s", "i", "m", "p", "l", "e", "\"", ",", "\"", "s", "u", "g", "g", "e", "s", "t", "e", "d", "D", "e", "p", "t", "h", "\"", ":", "9", ",", "\"", "a", "s", "p", "e", "c", "t", "s", "\"", ":", "[", "\"", "s", "t", "e", "p", "s", "\"", "]", ",", "\"", "k", "e", "y", "w", "o", "r", "d", "s", "\"", ":", "[", "]", "}">>
DocBroken == <<"{", "\"", "i", "n", "t", "e", "n", "t", "\"", ":", "}">>

\* JSON.parse on the documents above; any other text of the model is no JSON
JsonParse(text) ==
  IF text = DocAnalysis
    THEN Returned(Object(AnalysisFields, "howto", "simple", 2, <<<<"s", "t", "e", "p", "s">>>>, <<<<"a", "b">>>>))
  ELSE IF text = DocEmpty THEN Returned(Object({}, "", "", 0, <<>>, <<>>))
  ELSE IF text = DocMistyped
    THEN Returned(Object(AnalysisFields, "banana", "simple", 9, <<<<"s", "t", "e", "p", "s">>>>, <<>>))
  ELSE Thrown

\* response.match(/\{[\s\S]*\}/): from the first opening brace to the last closing
\* brace behind it; the empty text stands for no match
JsonMatch(response) ==
  LET opening == {i \in 1..Len(response) : response[i] = "{"}
      closing == {i \in 1..Len(response) : response[i] = "}"}
  IN  IF opening = {} THEN <<>>
      ELSE LET first == CHOOSE i \in opening : \A j \in opening : i <= j
               behind == {i \in closing : i > first}
           IN  IF behind = {} THEN <<>>
               ELSE SubSeq(response, first, CHOOSE i \in behind : \A j \in behind : j <= i)

\* what generateFn does: it throws, or answers with a text
Generations ==
  {Thrown} \cup
  {Returned(text) :
     text \in {<<"I", " ", "c", "a", "n", "n", "o", "t", " ", "a", "n", "s", "w", "e", "r">>, <<"}", "{">>, DocAnalysis, DocEmpty, DocMistyped, DocBroken,
               <<"H", "e", "r", "e", " ", "i", "t", " ", "i", "s", ":", "\n">> \o DocAnalysis \o <<"\n", "D", "o", "n", "e", ".">>,
               DocAnalysis \o <<" ", "o", "r", " ">> \o DocEmpty}}

\* lines 588-598 of part_006: the try block and the fallback behind it
analyzeQueryWithLLM(q, generated) ==
  LET jsonMatch == IF generated.threw THEN <<>> ELSE JsonMatch(generated.value)
      parsed == IF jsonMatch = <<>> THEN Thrown ELSE JsonParse(jsonMatch)
  IN  IF parsed.threw THEN ObjectOf(analyzeQuerySimple(q)) ELSE parsed.value

AnalyzerCall(fn, q, cues, intent, generated) ==
  [fn |-> fn, query |-> q, cues |-> cues, intent |-> intent, generated |-> generated]

AnalyzerCalls ==
  {AnalyzerCall("detectQueryAspects", Join(PickFrom(CueWords, cues), <<" ">>), cues, i, Thrown) :
     cues \in IndexLists(Len(CueWords), Len(CueWords)), i \in GeneratorIntents}
    \cup {AnalyzerCall("analyzeQueryWithLLM", q, <<>>, "factual", g) :
            q \in {QueryPlain, QueryHowto}, g \in Generations}

AnalyzerInit ==
  /\ NoSession
  /\ NoOverrides
  /\ NoGeneratorCall
  /\ NoIntegratedCall
  /\ NoScrapeCall
  /\ NoCoverageCall
  /\ NoStreamCall
  /\ NoRouteCall
  /\ NoRetryCall
  /\ aCall \in AnalyzerCalls
  /\ aPc = "called"
  /\ aResult = <<>>

AnalyzerIdle ==
  UNCHANGED <<sessionVars, overrideVars, generatorVars, integratedVars, scrapeVars,
              coverageVars, streamVars, routeVars, retryVars>>

\* part_006 lines 196-227
DetectAspects ==
  /\ aPc = "called"
  /\ aCall.fn = "detectQueryAspects"
  /\ aResult' = detectQueryAspects(aCall.query, aCall.intent)
  /\ aPc' = "returned"
  /\ UNCHANGED aCall
  /\ AnalyzerIdle

\* part_006 lines 572-599
AnalyzeWithLLM ==
  /\ aPc = "called"
  /\ aCall.fn = "analyzeQueryWithLLM"
  /\ aResult' = analyzeQueryWithLLM(aCall.query, aCall.generated)
  /\ aPc' = "returned"
  /\ UNCHANGED aCall
  /\ AnalyzerIdle

AnalyzerNext ==
  \/ DetectAspects
  \/ AnalyzeWithLLM

AnalyzerSpec == AnalyzerInit /\ [][AnalyzerNext]_vars

----------------------------------------------------------------------------
(* Properties of the session *)

\* concatenation of a sequence of sequences
RECURSIVE Flatten(_)
Flatten(seqs) == IF seqs = <<>> THEN <<>> ELSE Head(seqs) \o Flatten(Tail(seqs))

KeyOf(s) == NormalizeUrl(s.url)

\* the layers whose search produced a source of the key
LayersProducing(key) ==
  {i \in 1..Len(rawLayers) : \E k \in 1..Len(rawLayers[i]) : KeyOf(rawLayers[i][k]) = key}

ProducedKeys == {KeyOf(s) : s \in UNION {{l[k] : k \in 1..Len(l)} : l \in {rawLayers[i] : i \in 1..Len(rawLayers)}}}

\* the first source of the key in a list that has one
FirstOfKey(sources, key) ==
  sources[CHOOSE k \in 1..Len(sources) :
            /\ KeyOf(sources[k]) = key
            /\ \A j \in 1..(k - 1) : KeyOf(sources[j]) # key]

Positions(sources, key) == {k \in 1..Len(sources) : KeyOf(sources[k]) = key}

Earliest(S) == CHOOSE i \in S : \A j \in S : i <= j

\* C1: when two different layers each produced a source of the same normalized url, the
\* returned allSources holds exactly one source of that key, and it is the source the
\* earliest of these layers produced, with that layer's number and content
C1_EarlierLayerWins ==
  pc = "done" =>
    \A key \in ProducedKeys :
      Cardinality(LayersProducing(key)) >= 2 =>
        /\ Cardinality(Positions(allSources, key)) = 1
        /\ FirstOfKey(allSources, key) =
             FirstOfKey(rawLayers[Earliest(LayersProducing(key))], key)

\* a session returned in which layer 2 found, under another url and with another
\* content, a page layer 1 had found
C1_Witness ==
  /\ pc = "done"
  /\ \E key \in ProducedKeys :
       /\ {1, 2} \subseteq LayersProducing(key)
       /\ FirstOfKey(rawLayers[1], key).content # FirstOfKey(rawLayers[2], key).content
       /\ FirstOfKey(rawLayers[1], key).url # FirstOfKey(rawLayers[2], key).url

\* C2: at every moment of a session allSources holds at most one source per
\* normalized url
C2_OneSourcePerKey ==
  \A j, k \in 1..Len(allSources) : j # k => KeyOf(allSources[j]) # KeyOf(allSources[k])

\* every step of the session moves this count up
Progress ==
  2 * Len(calls) - Cardinality(inFlight) + 3 * Len(layers)
    + (IF pc = "searching" THEN 1 ELSE 0) + (IF pc = "done" THEN 2 ELSE 0)

\* the most the count can reach in a session of maxLayers layers
ProgressBound == 2 * (1 + MaxSubQueries * (maxLayers - 1)) + 3 * maxLayers + 2

\* where the function is suspended, a search call is in flight; everywhere else it runs on
AwaitsOnlySearches ==
  /\ pc = "layer1" => inFlight # {}
  /\ (pc = "searching" /\ inFlight = {} /\ nextSub <= Len(subQueries)) => MayIssueNext(inFlight)

C4_Transition ==
  [][pc = "loop" =>
       LET n == Len(layers)
           goesOn ==
             /\ ~ FracGeq(layers[n].coverage, minCoverage)
             /\ n + 1 <= Min(analysis.suggestedDepth, maxLayers)
             /\ Len(generateSubQueries(query, analysis, allSources, n)) > 0
       IN  /\ goesOn => (pc' = "searching" /\ layerNum' = n + 1 /\ Len(subQueries') > 0)
           /\ ~ goesOn => (pc' = "done" /\ calls' = calls /\ inFlight' = {})]_vars

\* a session that started layer 2 and then stopped short of its target depth
C4_Witness ==
  /\ pc = "done"
  /\ Len(layers) = 2
  /\ targetDepth = 3

\* C5: the target depth is min(suggestedDepth, maxLayers) from the analysis on; the
\* LayerResults are numbered 1..n with n within the target depth, a returned result has
\* at least one, and the search calls never go back to an earlier layer
C5_DepthAndLayers ==
  pc # "start" =>
    /\ targetDepth = (IF analysis.suggestedDepth <= maxLayers
                      THEN analysis.suggestedDepth ELSE maxLayers)
    /\ \A i \in 1..Len(layers) : layers[i].layer = i
    /\ Len(layers) <= targetDepth
    /\ pc = "done" => Len(layers) >= 1
    /\ \A i, j \in 1..Len(calls) : i < j => calls[i].layer <= calls[j].layer
    /\ \A i \in 1..Len(calls) : calls[i].layer <= Len(layers) + 1
    /\ pc \in {"loop", "done"} => \A i \in 1..Len(calls) : calls[i].layer <= Len(layers)

\* a session cut to two layers by maxLayers although the query suggested three, whose
\* second layer found nothing
C5_Witness ==
  /\ pc = "done"
  /\ analysis.suggestedDepth = 3
  /\ maxLayers = 2
  /\ Len(layers) = 2
  /\ layers[2].sources = <<>>

\* the sources the layers 1..n produced, deduplicated
CollectedUpTo(n) == deduplicateSources(Flatten(SubSeq(rawLayers, 1, n)))

\* C6: the coverage and the gaps recorded for a layer n >= 2 are the evaluator's
\* result on everything collected in layers 1..n, deduplicated
C6_CumulativeCoverage ==
  \A n \in 2..Len(layers) :
    LET evaluation == evaluateCoverageSimple(query, CollectedUpTo(n), analysis)
    IN  /\ layers[n].coverage = evaluation.coverage
        /\ layers[n].gaps = evaluation.gaps

\* a layer 2 whose recorded coverage differs from the coverage of its own new sources
C6_Witness ==
  /\ Len(layers) >= 2
  /\ layers[2].sources # <<>>
  /\ layers[2].coverage #
       evaluateCoverageSimple(query, layers[2].sources, analysis).coverage

\* C7: the LayerResults' sources, concatenated in layer order, are the returned allSources
C7_LayersPartitionSources ==
  pc = "done" =>
    Flatten([i \in 1..Len(layers) |-> layers[i].sources]) = allSources

\* C8: the searches of a layer with two or more sub-queries overlap: when all of them
\* have settled, one of them had been issued while another was in flight
C8_SubQueriesOverlap ==
  (pc = "searching" /\ inFlight = {} /\ nextSub > Len(subQueries) /\ Len(subQueries) >= 2)
    => overlapped

\* C9: totalSearches of the returned result is the number of search calls issued
C9_TotalSearchesCountsCalls ==
  pc = "done" => totalSearches = Len(calls)

\* C10: multiLayerSearch never fails, whatever the search calls settle with
C10_NeverRejects == pc # "rejected"


\* C11: an analyzer override that returns supplies the session's analysis, and an
\* evaluator override that returns supplies the coverage recorded for each layer
C11_OverridesInvoked ==
  /\ (analyzeQuery = "returns" /\ pc # "start") => analysis = OverrideAnalysis
  /\ evaluateCoverage = "returns" =>
       \A i \in 1..Len(layers) : layers[i].coverage = OverrideEvaluation.coverage

\* C12: whatever the query, the analysis, the sources and the layer number, the list
\* generateSubQueries returns has at most three queries, and none for a layer number
\* other than 1 and 2
C12_AtMostThreeSubQueries ==
  gPc = "returned" =>
    /\ Len(gResult) <= 3
    /\ gCall.layer \notin {1, 2} => Len(gResult) = 0

\* a call that proposed more than three queries and returned three
C12_Witness ==
  /\ gPc = "returned"
  /\ Len(ProposedSubQueries(gCall.originalQuery, gCall.analysis,
                            gCall.existingSources, gCall.layer)) > 3
  /\ Len(gResult) = 3

\* the text of a pros/cons query for a side
ProsConsQuery(side) == side \o <<" ", "u30E1", "u30EA", "u30C3", "u30C8", " ", "u30C7", "u30E1", "u30EA", "u30C3", "u30C8">>

\* C13: for "Apple vs Samsung" with the analyzer's own analysis, the list returned at
\* the layer 1 to 2 transition has a pros/cons query for Apple and one for Samsung
C13_ProsConsForBothSides ==
  (/\ gPc = "returned"
   /\ gCall.originalQuery = QueryAppleSamsung
   /\ gCall.analysis = analyzeQuerySimple(QueryAppleSamsung)
   /\ gCall.layer = 1)
    => /\ \E i \in 1..Len(gResult) : gResult[i] = ProsConsQuery(<<"A", "p", "p", "l", "e">>)
       /\ \E i \in 1..Len(gResult) : gResult[i] = ProsConsQuery(<<"S", "a", "m", "s", "u", "n", "g">>)

\* C14: a search call of a layer beyond 1 asks for no images, a call asks for news only
\* in layers 1 and 2, every item of allNews has layer 1 or 2, and imageResults does
\* not change once layer 1 is recorded
C14_ImagesAndNewsByLayer ==
  /\ [](/\ \A i \in 1..Len(calls) :
             /\ calls[i].layer > 1 => ~ calls[i].includeImages
             /\ calls[i].includeNews => calls[i].layer \in {1, 2}
        /\ \A i \in 1..Len(allNews) : allNews[i].layer \in {1, 2}
        /\ \A i \in 1..Len(layerNews) : layerNews[i].layer \in {1, 2})
  /\ [][Len(layers) >= 1 => imageResults' = imageResults]_vars

\* a session in its third layer, with images from layer 1 and news from layer 2
C14_Witness ==
  /\ \E i \in 1..Len(calls) : calls[i].layer = 3
  /\ imageResults # <<>>
  /\ \E i \in 1..Len(allNews) : allNews[i].layer = 2
  /\ Len(layers) = 3

\* the urls of a result list, in order
UrlsOf(results) == [i \in 1..Len(results) |-> results[i].url]

\* the page fetch of the i-th provider result of the call
FetchOf(i) == iCall.fetch[iSearchResults.value.web[i].url]

\* the number of characters of a fetched text, none when there is no text
CharsOf(text) == IF text = UNDEF THEN 0 ELSE Len(text)

\* C15: whichever fetches fail, the web list integratedSearch returns has the length,
\* the order and the urls of the provider's web list; and a call fails only over a url
\* that is no URL at all, never over the failed fetch of a well-formed url
C15_NoResultDropped ==
  /\ iPc = "returned" => UrlsOf(iResult.web) = UrlsOf(iSearchResults.value.web)
  /\ iPc = "threw" =>
       /\ iCall.options.scrapeContent
       /\ \E i \in 1..Len(iSearchResults.value.web) :
            ~ IsValidUrl(iSearchResults.value.web[i].url)

\* a call that scraped two urls, one fetch failing and one succeeding, and returned both
C15_Witness ==
  /\ iPc = "returned"
  /\ iCall.options.scrapeContent
  /\ Len(iResult.web) = 2
  /\ FetchOf(1) = NoScrape
  /\ FetchOf(2) # NoScrape
  /\ CharsOf(FetchOf(2).content) > MinScrapedLength

\* C16: when the fetch fails or yields fewer than 50 characters and the provider's
\* description is non-empty, the merged result's markdown is "# ", the merged result's
\* title, a blank line and the description, and its content is the description
C16_FallbackDocument ==
  (iPc = "returned" /\ iCall.options.scrapeContent) =>
    \A i \in 1..Len(iResult.web) :
      LET provider == iSearchResults.value.web[i]
          merged == iResult.web[i]
      IN  (/\ CharsOf(FetchOf(i).content) < 50
           /\ CharsOf(FetchOf(i).markdown) < 50
           /\ Truthy(provider.description))
            => /\ merged.markdown =
                    <<"#", " ">> \o merged.title \o <<"\n", "\n">> \o provider.description
               /\ merged.content = provider.description

\* C17: when the fetch produced at least 50 characters of body text or of markdown,
\* the merged result carries the fetched content and markdown
C17_FetchedContentPreferred ==
  (iPc = "returned" /\ iCall.options.scrapeContent) =>
    \A i \in 1..Len(iResult.web) :
      (CharsOf(FetchOf(i).content) >= 50 \/ CharsOf(FetchOf(i).markdown) >= 50)
        => /\ iResult.web[i].content = FetchOf(i).content
           /\ iResult.web[i].markdown = FetchOf(i).markdown

\* C18: with scrapeContent false no url is handed to a page fetcher, the call returns,
\* and each returned web result's content is its provider description
C18_NoFetchWithoutScrapeContent ==
  (iPc \in {"scraped", "returned", "threw"} /\ ~ iCall.options.scrapeContent) =>
    /\ Len(iFetched) = 0
    /\ iPc # "threw"
    /\ iPc = "returned" =>
         /\ Len(iResult.web) = Len(iSearchResults.value.web)
         /\ \A i \in 1..Len(iResult.web) :
              iResult.web[i].content = iSearchResults.value.web[i].description

\* a call without scraping that returned a result whose page had a long body
C18_Witness ==
  /\ iPc = "returned"
  /\ ~ iCall.options.scrapeContent
  /\ Len(iResult.web) >= 1
  /\ CharsOf(FetchOf(1).content) > MinScrapedLength
  /\ iResult.web[1].content = iSearchResults.value.web[1].description

\* what an endpoint's reply amounts to: its items up to the count, nothing on a failure
ListOf(reply, count) == IF reply.kind = "ok" THEN Take(reply.items, count) ELSE <<>>

\* C19: search does not throw; with a key each list is what its own endpoint gave, empty
\* when that endpoint failed or was not asked, whatever the other endpoints did; without
\* a key a failure of DuckDuckGo gives three empty lists
C19_SearchNeverThrows ==
  iPc # "called" =>
    LET options == iCall.options
        replies == iCall.replies
        found == iSearchResults.value
    IN  /\ ~ iSearchResults.threw
        /\ Truthy(options.braveApiKey) =>
             /\ UrlsOf(found.web) = UrlsOf(ListOf(replies.braveWeb, options.numResults))
             /\ UrlsOf(found.news) =
                  (IF options.includeNews
                   THEN UrlsOf(ListOf(replies.braveNews, BraveNewsCount)) ELSE <<>>)
             /\ UrlsOf(found.images) =
                  (IF options.includeImages
                   THEN UrlsOf(ListOf(replies.braveImages, BraveImageCount)) ELSE <<>>)
        /\ (~ Truthy(options.braveApiKey) /\ replies.ddg.kind # "ok") =>
             found = EmptyResponse

\* a search with a key whose news request failed and whose web and image lists are there
C19_Witness ==
  /\ iPc = "searched"
  /\ Truthy(iCall.options.braveApiKey)
  /\ iCall.options.includeNews
  /\ iCall.replies.braveNews.kind = "networkError"
  /\ iSearchResults.value.news = <<>>
  /\ Len(iSearchResults.value.web) = 2
  /\ Len(iSearchResults.value.images) = 1

BraveEndpoints == {"brave/web", "brave/news", "brave/images"}

\* C20: with a key the requests go to Brave only and the lists hold nothing of
\* DuckDuckGo's, also when every Brave request failed; without a key the one request
\* goes to DuckDuckGo and the lists hold nothing of Brave's
C20_ProvidersNeverMixed ==
  iPc # "called" =>
    LET found == iSearchResults.value
    IN  IF Truthy(iCall.options.braveApiKey)
        THEN /\ iRequests \subseteq BraveEndpoints
             /\ "brave/web" \in iRequests
             /\ iCall.replies.braveWeb.kind # "ok" => found.web = <<>>
        ELSE /\ iRequests = {"duckduckgo/html"}
             /\ found.news = <<>>
             /\ found.images = <<>>
             /\ \A i \in 1..Len(found.web) :
                  found.web[i].url # iCall.replies.braveWeb.items[1].url

\* a search with a key whose three Brave requests failed, while DuckDuckGo had results
C20_Witness ==
  /\ iPc = "searched"
  /\ iRequests = BraveEndpoints
  /\ iCall.replies.braveWeb.kind = "networkError"
  /\ iCall.replies.braveNews.kind = "networkError"
  /\ iCall.replies.braveImages.kind = "httpError"
  /\ iCall.replies.ddg.kind = "ok"
  /\ iCall.replies.ddg.blocks # <<>>
  /\ iSearchResults.value = EmptyResponse


\* C21: each of the web, news and image lists search returns has at most numResults
\* items
C21_ListsWithinNumResults ==
  iPc # "called" =>
    /\ Len(iSearchResults.value.web) <= iCall.options.numResults
    /\ Len(iSearchResults.value.news) <= iCall.options.numResults
    /\ Len(iSearchResults.value.images) <= iCall.options.numResults

\* C22: for the empty query search and integratedSearch return empty web, news and
\* image lists and do not throw, whatever the endpoints answer
C22_EmptyQueryEmptyLists ==
  (iCall.query = <<>> /\ iPc # "called") =>
    /\ iSearchResults = Returned(EmptyResponse)
    /\ iPc # "threw"
    /\ iPc = "returned" =>
         /\ iResult.web = <<>>
         /\ iResult.news = <<>>
         /\ iResult.images = <<>>

\* the causes for which scrapeUrl gives up
FailureCauses == {"status", "contentType", "timeout", "network"}

\* C23: no scrapeUrl call and no scrapeUrls call is rejected; a call ended by an error
\* status, a content type other than HTML, a timeout or a network error returned null;
\* a body longer than the maximum length is cut to it and a result is returned
C23_FailureIsNull ==
  /\ sPc # "rejected"
  /\ \A i \in 1..Len(sFetches) :
       LET call == sFetches[i]
       IN  /\ call.phase # "rejected"
           /\ (call.phase = "settled" /\ call.cause \in FailureCauses) =>
                call.value = NullResult
           /\ (call.phase = "settled" /\ call.cause \notin FailureCauses) =>
                /\ sCall.servers[i] \in {"page", "longPage"}
                /\ call.value.url = sCall.urls[i]
                /\ call.value.htmlChars =
                     (IF sCall.servers[i] = "longPage" THEN MaxContentLength ELSE 100)
           /\ (call.phase = "settled" /\ sCall.servers[i] \notin {"page", "longPage"}) =>
                call.value = NullResult

\* a call with an error status, a refused connection and a body longer than the
\* maximum length, all settled
C23_Witness ==
  /\ Len(sFetches) = 3
  /\ \A i \in 1..3 : sFetches[i].phase = "settled"
  /\ \E i \in 1..3 : sFetches[i].cause = "status"
  /\ \E i \in 1..3 : sFetches[i].cause = "network"
  /\ \E i \in 1..3 : sCall.servers[i] = "longPage" /\ sFetches[i].cause = "body"

\* the results of the first n urls that are not null, in the order of the urls
SuccessfulUpTo(n) ==
  SelectSeq([i \in 1..n |-> sFetches[i].value], LAMBDA v : v # NullResult)

\* C24: at most maxConcurrent fetches are in flight; when a batch is complete none of
\* its members is in flight, and the results array holds every result of the urls so
\* far that is not null, in the order of the urls
C24_BoundedBatches ==
  /\ Cardinality(InFlight) <= sCall.maxConcurrent
  /\ sPc # "rejected"
  /\ sPc \in {"loop", "returned"} =>
       /\ InFlight = {}
       /\ sResults = SuccessfulUpTo(Min(sNext - 1, Len(sFetches)))
  /\ sPc = "returned" => \A i \in 1..Len(sFetches) : sFetches[i].phase = "settled"

\* a returned call of three urls in batches of two whose first url failed
C24_Witness ==
  /\ sPc = "returned"
  /\ sCall.maxConcurrent = 2
  /\ Len(sFetches) = 3
  /\ sFetches[1].cause = "timeout"
  /\ Len(sResults) = 2
  /\ sResults[1].url = sCall.urls[2]
  /\ sResults[2].url = sCall.urls[3]

\* C25: every fetch in flight has its timer armed, so that its own timeout ends it; and a
\* url that is not yet fetched waits only while maxConcurrent fetches are in flight
C25_SlowUrlDoesNotBlock ==
  /\ \A i \in InFlight : sFetches[i].timer
  /\ (sPc = "awaiting" /\ InFlight # {} /\ \E i \in 1..Len(sFetches) :
                                             sFetches[i].phase = "pending")
       => Cardinality(InFlight) = sCall.maxConcurrent

\* what the searches of layer n returned, in the order in which they were issued
FoundInLayer(n) ==
  LET issued == SelectSeq(calls, LAMBDA c : c.layer = n)
  IN  Flatten([i \in 1..Len(issued) |-> issued[i].found])

\* C26: the sources a layer beyond 1 hands to the merge are the results of its searches
\* in the order in which the searches were issued
C26_SubmissionOrder ==
  /\ pc = "searching" => layerSources = FoundInLayer(layerNum)
  /\ \A n \in 2..Len(rawLayers) : rawLayers[n] = FoundInLayer(n)

\* a merged layer whose two searches both returned sources, and different ones
C26_Witness ==
  /\ Len(rawLayers) >= 2
  /\ \E i, j \in 1..Len(calls) :
       /\ i < j
       /\ calls[i].layer = 2
       /\ calls[j].layer = 2
       /\ calls[i].found # <<>>
       /\ calls[j].found # <<>>
       /\ calls[i].found # calls[j].found

\* C29: allNews holds at most one news item per normalized url
C29_OneNewsPerKey ==
  \A i, j \in 1..Len(allNews) :
    NormalizeUrl(allNews[i].url) = NormalizeUrl(allNews[j].url) => i = j

\* the members of a list
Members(list) == {list[i] : i \in 1..Len(list)}

\* C27: on a list that holds the source list the evaluator reports no aspect as a gap
\* that it did not report on the source list, hence no lower aspectCoverage
C27_CoverageMonotonic ==
  cPc = "returned" =>
    /\ Members(cResult.extended.gaps) \subseteq Members(cResult.base.gaps)
    /\ Len(cResult.extended.gaps) <= Len(cResult.base.gaps)

\* the number of keywords found in the text of the sources
MatchedKeywords(keywords, sources) ==
  Cardinality({i \in 1..Len(keywords) : Includes(AllContent(sources), ToLower(keywords[i]))})

\* C28: coverage is 0.6 * aspectCoverage + 0.4 * keywordCoverage, with aspectCoverage
\* the share of aspects that are no gaps (0.5 without aspects) and keywordCoverage the
\* matched keywords over max(1, number of keywords); it lies within [0, 1]
C28_CoverageFormula ==
  cPc = "returned" =>
    LET aspects == cCall.analysis.aspects
        keywords == cCall.analysis.keywords
        result == cResult.extended
        aspNum == IF aspects = <<>> THEN 1 ELSE Len(aspects) - Len(result.gaps)
        aspDen == IF aspects = <<>> THEN 2 ELSE Len(aspects)
        kwNum == MatchedKeywords(keywords, cCall.superset)
        kwDen == IF keywords = <<>> THEN 1 ELSE Len(keywords)
    IN  /\ result.coverage.den > 0
        /\ 10 * aspDen * kwDen * result.coverage.num =
             (6 * aspNum * kwDen + 4 * kwNum * aspDen) * result.coverage.den
        /\ 0 <= result.coverage.num
        /\ result.coverage.num <= result.coverage.den
        /\ \A i \in 1..Len(result.gaps) : result.gaps[i] \in Members(aspects)

\* a call with two aspects, one of them a gap, and three keywords, two of them matched
C28_Witness ==
  /\ cPc = "returned"
  /\ Len(cCall.analysis.aspects) = 2
  /\ Len(cResult.extended.gaps) = 1
  /\ Len(cCall.analysis.keywords) = 3
  /\ MatchedKeywords(cCall.analysis.keywords, cCall.superset) = 2

\* C30: every text-delta chunk of the stream comes after a text-start chunk with its id,
\* and once execute has finished a text-end chunk with that id comes after it
C30_TextBlocksFramed ==
  \A i \in 1..Len(stChunks) :
    stChunks[i].type = "text-delta" =>
      /\ \E j \in 1..(i - 1) :
           stChunks[j].type = "text-start" /\ stChunks[j].id = stChunks[i].id
      /\ stPc = "closed" =>
           \E j \in (i + 1)..Len(stChunks) :
             stChunks[j].type = "text-end" /\ stChunks[j].id = stChunks[i].id

----------------------------------------------------------------------------
(* The search route, the generator without keywords, the frame of a merge, the       *)
(* retry of the search client and the analyzers                                      *)

\* the last message of the body holds text: a text part with text, or content when it
\* has no parts
LastMessageHoldsText(body) ==
  /\ body.messages # <<>>
  /\ LET lastMessage == body.messages[Len(body.messages)]
     IN  /\ lastMessage.kind = "object"
         /\ \/ /\ lastMessage.parts = "array"
               /\ \E i \in 1..Len(lastMessage.items) :
                    /\ lastMessage.items[i].kind = "object"
                    /\ lastMessage.items[i].type = "text"
                    /\ Truthy(lastMessage.items[i].text)
            \/ lastMessage.parts # "array" /\ Truthy(lastMessage.content)

\* the body is JSON and neither it nor its last message holds a query
NoQueryInBody(body) ==
  /\ body.json # "invalid"
  /\ ~Truthy(body.query)
  /\ ~LastMessageHoldsText(body)

\* the body is an object with a query of its own, the key of its provider is not set
QueryWithoutKey(body, env) ==
  /\ body.json = "object"
  /\ Truthy(body.query)
  /\ \/ body.provider = "groq" /\ ~env.groqApiKey
     \/ body.provider = "openai" /\ ~body.openaiApiKey /\ ~env.openaiApiKey

RouteAnswered == rtPc \in {"responded", "streaming", "searched"}

\* C31: the route answers 400 when no query can be taken from the body or the last
\* message and 500 when the key of the selected provider is missing or the body is no
\* JSON; with these answers no search call is made and no stream is opened
C31_ErrorResponses ==
  /\ rtPc \in {"received", "parsed"} => rtSearches = 0
  /\ RouteAnswered =>
       /\ NoQueryInBody(rtCall.body) => rtResponse.status = 400
       /\ rtCall.body.json = "invalid" => rtResponse.status = 500
       /\ QueryWithoutKey(rtCall.body, rtCall.env) => rtResponse.status = 500
       /\ rtResponse.status \in {400, 500} => ~rtResponse.stream /\ rtSearches = 0

\* C31 for the bodies whose query can be read: an object whose last message, if looked
\* at, is an object with no parts or an array of objects as parts
ReadableBody(body) ==
  /\ body.json = "object"
  /\ Truthy(body.query) \/ ~ExtractQuery(body).threw

C31_ErrorResponsesReadable ==
  /\ rtPc \in {"received", "parsed"} => rtSearches = 0
  /\ RouteAnswered =>
       /\ (NoQueryInBody(rtCall.body) /\ ReadableBody(rtCall.body)) =>
            rtResponse.status = 400
       /\ rtCall.body.json = "invalid" => rtResponse.status = 500
       /\ QueryWithoutKey(rtCall.body, rtCall.env) => rtResponse.status = 500
       /\ rtResponse.status \in {400, 500} => ~rtResponse.stream /\ rtSearches = 0

\* C32: with an empty keyword list generateSubQueries proposes no query built from the
\* missing keyword, for every intent and for the layers 1 and 2
C32_NoQueryFromMissingKeyword ==
  (gPc = "returned" /\ gCall.analysis.keywords = <<>>) =>
    \A i \in 1..Len(gResult) : ~StartsWith(gResult[i], UndefinedText)

\* C33: a step leaves every LayerResult recorded so far and every source of the running
\* set as it was: same position, same fields, same layer
C33_EarlierResultsUnchanged ==
  [][/\ Len(layers') >= Len(layers)
     /\ \A i \in 1..Len(layers) : layers'[i] = layers[i]
     /\ Len(allSources') >= Len(allSources)
     /\ \A i \in 1..Len(allSources) : allSources'[i] = allSources[i]]_vars

\* C34: after the merge of a layer, deduplicateSources leaves the running set as it is,
\* and so does a second merge of the same layer's sources
C34_MergeIdempotent ==
  (pc = "loop" /\ Len(layers) >= 2) =>
    /\ deduplicateSources(allSources) = allSources
    /\ MergedSources(allSources, layerSources) = allSources

\* a merge that added a source of the layer and dropped another as a duplicate
C34_Witness ==
  /\ pc = "loop"
  /\ Len(layers) >= 2
  /\ \E i \in 1..Len(allSources) : allSources[i].layer = 2
  /\ \E i \in 1..Len(layerSources) :
       \E j \in 1..Len(allSources) :
         /\ KeyOf(allSources[j]) = KeyOf(layerSources[i])
         /\ allSources[j] # layerSources[i]

\* the steps a call of fetchWithRetry has taken
RetryProgress ==
  fwRequests + fwAttempt + Len(fwWaits) + (IF fwPc \in {"returned", "rejected"} THEN 1 ELSE 0)

\* C35: fetchWithRetry issues at most maxRetries + 1 requests, one more than it has
\* waited; it waits only after a 429 response and at most 5000 ms; it returns the first
\* response other than 429, or the 429 response of the last attempt; every step takes
\* it forward within a bound, so it terminates
C35_BoundedRetry ==
  /\ [](/\ fwRequests <= Max(fwCall.maxRetries, -1) + 1
        /\ Len(fwWaits) <= fwRequests
        /\ \A i \in 1..Len(fwWaits) :
             /\ fwWaits[i] <= 5000
             /\ AnswerTo(fwCall, i).kind = "response"
             /\ AnswerTo(fwCall, i).status = 429
        /\ RetryProgress <= 3 * (MaxRetriesOption + 1)
        /\ fwPc = "returned" =>
             /\ fwResult = AnswerTo(fwCall, fwRequests)
             /\ Len(fwWaits) = fwRequests - 1
             /\ \A i \in 1..(fwRequests - 1) : AnswerTo(fwCall, i).status = 429
             /\ fwResult.status = 429 => fwRequests = fwCall.maxRetries + 1)
  /\ [][RetryProgress' > RetryProgress /\ fwPc \notin {"returned", "rejected"}]_vars

\* a call that was answered 429 on every attempt, waited the longest wait and returned
\* the last 429 response
C35_Witness ==
  /\ fwPc = "returned"
  /\ fwResult.status = 429
  /\ fwRequests >= 7
  /\ fwWaits[Len(fwWaits)] = 5000
  /\ fwWaits[1] = 1000

\* the aspect of the rule table that the cue word with this index stands for
CueAspectOf(index) == CueAspects[Len(CueWords) + 1 - index]

\* C36: the aspect list of detectQueryAspects holds no aspect twice; it is the aspects
\* of the cues met in the query, in the order of the rule table, followed by the
\* bundle of the intent
C36_AspectsInTableOrder ==
  (aPc = "returned" /\ aCall.fn = "detectQueryAspects") =>
    /\ \A i, j \in 1..Len(aResult) : i # j => aResult[i] # aResult[j]
    /\ aResult =
         SelectSeq(CueAspects,
                   LAMBDA a : \E k \in 1..Len(aCall.cues) : CueAspectOf(aCall.cues[k]) = a)
           \o IntentAspects(aCall.intent)

\* a query with the cues of person and definition, in this order, and a bundle
C36_Witness ==
  /\ aPc = "returned"
  /\ aCall.fn = "detectQueryAspects"
  /\ aCall.cues = <<1, 6>>
  /\ aCall.intent = "comparison"
  /\ Len(aResult) = 5
  /\ aResult[1] = CueAspects[1]
  /\ aResult[2] = CueAspects[6]

\* the object holds every field of a QueryAnalysis, an intent of the enum and a
\* suggested depth of 1 to 3
WellFormed(object) ==
  /\ object.present = AnalysisFields
  /\ object.intent \in GeneratorIntents
  /\ object.suggestedDepth \in 1..3

\* the generation threw, answered without a JSON object, or with one that does not
\* parse or is no well-formed analysis
GenerationUnusable(generated) ==
  \/ generated.threw
  \/ JsonMatch(generated.value) = <<>>
  \/ JsonParse(JsonMatch(generated.value)).threw
  \/ ~WellFormed(JsonParse(JsonMatch(generated.value)).value)

\* C38: analyzeQueryWithLLM returns a well-formed QueryAnalysis; when the generation
\* is unusable it returns what analyzeQuerySimple returns for the query
C38_WellFormedOrFallback ==
  (aPc = "returned" /\ aCall.fn = "analyzeQueryWithLLM") =>
    /\ WellFormed(aResult)
    /\ GenerationUnusable(aCall.generated) =>
         aResult = ObjectOf(analyzeQuerySimple(aCall.query))

\* C38 for the failures the code does catch: a generation that throws, an answer without
\* a JSON object and one that does not parse
C38_FallbackOnFailure ==
  (/\ aPc = "returned"
   /\ aCall.fn = "analyzeQueryWithLLM"
   /\ \/ aCall.generated.threw
      \/ JsonMatch(aCall.generated.value) = <<>>
      \/ JsonParse(JsonMatch(aCall.generated.value)).threw) =>
    aResult = ObjectOf(analyzeQuerySimple(aCall.query))

\* the sources the evaluation recorded for layer n was made on
EvaluatedAt(n) == IF n = 1 THEN rawLayers[1] ELSE CollectedUpTo(n)

\* the positions of the aspects for which the text of the sources holds a trigger word
CoveredPositions(aspects, sources) ==
  LET text == AllContent(sources)
  IN  {i \in 1..Len(aspects) : \E kw \in aspectKeywords(aspects[i]) : Includes(text, kw)}

\* C37: the returned finalCoverage is the coverage of the last LayerResult; in every
\* evaluation, when it is recorded, the covered aspects and the gaps add up to the
\* aspects, and the gaps are the uncovered aspects in the order of the aspect list
C37_FinalCoverageAndGaps ==
  /\ pc = "done" => Result.finalCoverage = layers[Len(layers)].coverage
  /\ (pc = "loop" /\ layers # <<>>) =>
       LET gaps == layers[Len(layers)].gaps
           covered == CoveredPositions(analysis.aspects, EvaluatedAt(Len(layers)))
       IN  /\ Cardinality(covered) + Len(gaps) = Len(analysis.aspects)
           /\ gaps = PickFrom(analysis.aspects,
                              SelectSeq([i \in 1..Len(analysis.aspects) |-> i],
                                        LAMBDA i : i \notin covered))

\* a session returned after two layers whose coverages differ, the last one with a
\* covered aspect and two gaps
C37_Witness ==
  /\ pc = "done"
  /\ Len(layers) >= 2
  /\ layers[1].coverage # layers[Len(layers)].coverage
  /\ Len(layers[Len(layers)].gaps) >= 2
  /\ Len(layers[Len(layers)].gaps) < Len(analysis.aspects)

====
